---- MODULE Spec2Model ----
(***************************************************************************)
(* Smart Content Aggregator API: the summary engine.                       *)
(*                                                                         *)
(* Texts are sequences of one-character strings, so that length, word      *)
(* count, substring search, splitting and the regular-expression rewrites  *)
(* of the source are computed character by character.                      *)
(*                                                                         *)
(* JavaScript passes arguments by value.  An operator over texts says so:  *)
(* it evaluates its argument once and names the value s, in the form       *)
(*   op(text) == CHOOSE r \in {body(s) : s \in {text}} : TRUE              *)
(* or \E s \in {text} : body(s) for a predicate.                           *)
(***************************************************************************)
EXTENDS Integers, Sequences, FiniteSets, TLC

----------------------------------------------------------------------------
(* Characters and the JavaScript string primitives the source relies on.   *)

\* \s of a JavaScript regular expression, and what String.trim removes
WhiteSpace == {" ", "\n", "\t"}

\* the characters "." of a JavaScript regular expression does not match
LineTerminators == {"\n"}

UpperCase == <<"A","B","C","D","E","F","G","H","I","J","K","L","M",
               "N","O","P","Q","R","S","T","U","V","W","X","Y","Z">>

LowerCase == <<"a","b","c","d","e","f","g","h","i","j","k","l","m",
               "n","o","p","q","r","s","t","u","v","w","x","y","z">>

toLowerCaseChar(c) ==
  IF \E i \in 1..26 : UpperCase[i] = c
    THEN LowerCase[CHOOSE i \in 1..26 : UpperCase[i] = c]
    ELSE c

RECURSIVE toLowerCase(_)
\* String.prototype.toLowerCase
toLowerCase(text) ==
  CHOOSE r \in
    {IF s = <<>> THEN <<>>
     ELSE <<toLowerCaseChar(Head(s))>> \o toLowerCase(Tail(s)) : s \in {text}} : TRUE

\* String.prototype.includes
includes(text, word) ==
  \E s \in {text}, sub \in {word} :
     \E i \in 0..(Len(s) - Len(sub)) : SubSeq(s, i + 1, i + Len(sub)) = sub

\* s.substring(n): the text after the first n characters
dropChars(text, n) ==
  CHOOSE r \in {SubSeq(s, n + 1, Len(s)) : s \in {text}} : TRUE

\* removes the longest prefix of the text made of characters of set cs
dropLeading(text, cs) ==
  CHOOSE r \in
    {IF \A i \in 1..Len(s) : s[i] \in cs THEN <<>>
     ELSE SubSeq(s, CHOOSE i \in 1..Len(s) :
                      s[i] \notin cs /\ \A j \in 1..(i - 1) : s[j] \in cs,
                 Len(s)) : s \in {text}} : TRUE

\* removes the longest suffix of the text made of characters of set cs
dropTrailing(text, cs) ==
  CHOOSE r \in
    {IF \A i \in 1..Len(s) : s[i] \in cs THEN <<>>
     ELSE SubSeq(s, 1, CHOOSE i \in 1..Len(s) :
                         s[i] \notin cs /\ \A j \in (i + 1)..Len(s) : s[j] \in cs)
       : s \in {text}} : TRUE

\* String.prototype.trim
trim(text) ==
  CHOOSE r \in {dropTrailing(s, WhiteSpace) : s \in {dropLeading(text, WhiteSpace)}} : TRUE

\* s.split(' ').length: one more than the number of space characters
splitSpaceLength(text) ==
  CHOOSE r \in {1 + Cardinality({i \in 1..Len(s) : s[i] = " "}) : s \in {text}} : TRUE

RECURSIVE join(_)
\* Array.prototype.join(' ')
join(array) ==
  CHOOSE r \in
    {IF parts = <<>> THEN <<>>
     ELSE IF Len(parts) = 1 THEN parts[1]
     ELSE parts[1] \o <<" ">> \o join(Tail(parts)) : parts \in {array}} : TRUE

\* a slice that stops one element early
slice0Short(array, end) ==
  CHOOSE r \in {SubSeq(seq, 1, end - 1) : seq \in {array}} : TRUE

\* Array.prototype.slice(0, end), with JavaScript's reading of a negative end
slice0(array, end) ==
  CHOOSE r \in
    {SubSeq(seq, 1, IF end < 0 THEN (IF Len(seq) + end < 0 THEN 0 ELSE Len(seq) + end)
                    ELSE (IF end > Len(seq) THEN Len(seq) ELSE end))
       : seq \in {array}} : TRUE

----------------------------------------------------------------------------
(* ExtractiveSummarizer                                                    *)

SentenceTerminators == {".", "!", "?"}

RECURSIVE splitOnTerminators(_)
\* text.split(/[.!?]+/)
splitOnTerminators(text) ==
  CHOOSE r \in
    {IF \A i \in 1..Len(s) : s[i] \notin SentenceTerminators
       THEN <<s>>
       ELSE CHOOSE pieces \in
              {<<SubSeq(s, 1, i - 1)>>
                 \o splitOnTerminators(dropLeading(dropChars(s, i), SentenceTerminators))
               : i \in {k \in 1..Len(s) :
                          /\ s[k] \in SentenceTerminators
                          /\ \A j \in 1..(k - 1) : s[j] \notin SentenceTerminators}}
              : TRUE
     : s \in {text}} : TRUE

\* a filter that keeps a sentence of exactly 15 characters
isSentenceOfFifteen(sentence) ==
  \E s \in {sentence} : Len(s) >= 15 /\ splitSpaceLength(s) > 3

\* the filter of splitIntoSentences
isSentence(sentence) ==
  \E s \in {sentence} : Len(s) > 15 /\ splitSpaceLength(s) > 3

RECURSIVE trimAll(_)
\* .map(sentence => sentence.trim())
trimAll(array) ==
  CHOOSE r \in
    {IF pieces = <<>> THEN <<>>
     ELSE <<trim(Head(pieces))>> \o trimAll(Tail(pieces)) : pieces \in {array}} : TRUE

splitIntoSentences(text) ==
  CHOOSE r \in {SelectSeq(trimmed, isSentence) :
                  trimmed \in {trimAll(splitOnTerminators(text))}} : TRUE

\* positionBonus, in units of 0.05
positionBonus(index) == IF index = 0 THEN 3 ELSE (IF index = 1 THEN 1 ELSE 0)

\* weight[i] stands for (score / sqrt(terms.length)) * lengthPenalty of
\* sentence i in units of 0.05, as the tokenizer, the stemmer and the TF-IDF
\* corpus of the natural library produce it; it is 0 exactly when the
\* sentence has no terms (every TF-IDF weight of a present term is positive).
calculateSentenceScores(array, weight) ==
  CHOOSE r \in
    {[i \in 1..Len(sentences) |->
        [sentence |-> sentences[i],
         score    |-> IF w[i] > 0 THEN w[i] + positionBonus(i - 1) ELSE 0,
         index    |-> i - 1]] : sentences \in {array}, w \in {weight}} : TRUE

\* one step of a sort by descending score that puts an item before its equals
insertByScoreUnstable(item, array) ==
  CHOOSE r \in
    {SubSeq(sorted, 1, Cardinality({j \in 1..Len(sorted) : sorted[j].score > x.score}))
       \o <<x>>
       \o SubSeq(sorted,
                 Cardinality({j \in 1..Len(sorted) : sorted[j].score > x.score}) + 1,
                 Len(sorted)) : x \in {item}, sorted \in {array}} : TRUE

\* one step of a stable sort by descending score (Array.prototype.sort keeps
\* the order of items that compare equal)
insertByScore(item, array) ==
  CHOOSE r \in
    {SubSeq(sorted, 1, Cardinality({j \in 1..Len(sorted) : sorted[j].score >= x.score}))
       \o <<x>>
       \o SubSeq(sorted,
                 Cardinality({j \in 1..Len(sorted) : sorted[j].score >= x.score}) + 1,
                 Len(sorted)) : x \in {item}, sorted \in {array}} : TRUE

RECURSIVE sortByScoreInto(_, _)
sortByScoreInto(array, done) ==
  CHOOSE r \in
    {IF items = <<>> THEN acc
     ELSE sortByScoreInto(Tail(items), insertByScore(Head(items), acc))
       : items \in {array}, acc \in {done}} : TRUE

\* .sort((a, b) => b.score - a.score)
sortByScore(items) == sortByScoreInto(items, <<>>)

\* one step of a stable sort by ascending index
insertByIndex(item, array) ==
  CHOOSE r \in
    {SubSeq(sorted, 1, Cardinality({j \in 1..Len(sorted) : sorted[j].index <= x.index}))
       \o <<x>>
       \o SubSeq(sorted,
                 Cardinality({j \in 1..Len(sorted) : sorted[j].index <= x.index}) + 1,
                 Len(sorted)) : x \in {item}, sorted \in {array}} : TRUE

RECURSIVE sortByIndexInto(_, _)
sortByIndexInto(array, done) ==
  CHOOSE r \in
    {IF items = <<>> THEN acc
     ELSE sortByIndexInto(Tail(items), insertByIndex(Head(items), acc))
       : items \in {array}, acc \in {done}} : TRUE

\* the selection left in score order
sortByIndexOmitted(items) == items

\* .sort((a, b) => a.index - b.index)
sortByIndex(items) == sortByIndexInto(items, <<>>)

\* const { maxSentences = 3 } = config; an option is <<>> when the caller
\* did not set it and <<v>> when it is set to v
maxSentencesOf(cfg) ==
  IF cfg.maxSentences = <<>> THEN 3 ELSE cfg.maxSentences[1]

\* the early return taken only below maxSentences
returnsAllSentencesBelow(sentences, maxSentences) == Len(sentences) < maxSentences

\* if (sentences.length <= maxSentences): the early return, before any scoring
returnsAllSentences(sentences, maxSentences) == Len(sentences) <= maxSentences

\* the items whose sentences generateSummary joins: every filtered sentence
\* on the early return, else the selection
topSentences(array, maxSentences, weight) ==
  CHOOSE r \in
    {IF returnsAllSentences(sentences, maxSentences)
       THEN [i \in 1..Len(sentences) |->
               [sentence |-> sentences[i], score |-> 0, index |-> i - 1]]
       ELSE sortByIndex(slice0(sortByScore(calculateSentenceScores(sentences, weight)),
                               maxSentences)) : sentences \in {array}} : TRUE

RECURSIVE sentencesOf(_)
\* .map(item => item.sentence)
sentencesOf(array) ==
  CHOOSE r \in
    {IF items = <<>> THEN <<>>
     ELSE <<Head(items).sentence>> \o sentencesOf(Tail(items)) : items \in {array}} : TRUE

generateSummary(text, cfg, weight) ==
  join(sentencesOf(topSentences(splitIntoSentences(text), maxSentencesOf(cfg), weight)))

----------------------------------------------------------------------------
(* AISummaryService: cleaning and validation of a provider's candidate     *)

\* .replace(/^\[.*?\]\s*/, '')
stripBracketPrefix(text) ==
  CHOOSE r \in
    {IF s # <<>> /\ s[1] = "[" /\ (\E j \in 2..Len(s) : s[j] = "]")
       THEN CHOOSE t \in
              {IF \E m \in 2..(j - 1) : s[m] \in LineTerminators
                 THEN s
                 ELSE dropLeading(dropChars(s, j), WhiteSpace)
               : j \in {k \in 2..Len(s) :
                          s[k] = "]" /\ \A m \in 2..(k - 1) : s[m] # "]"}} : TRUE
       ELSE s : s \in {text}} : TRUE

\* does the text begin with the lower-case text label, in any letter case
startsWithIgnoreCase(text, label) ==
  \E s \in {text} :
     Len(s) >= Len(label) /\ toLowerCase(SubSeq(s, 1, Len(label))) = label

\* the length matched by the group (summary|summary:), whose alternatives
\* are tried from left to right
summaryLabelLength(text) ==
  CHOOSE r \in
    {IF startsWithIgnoreCase(s, <<"s","u","m","m","a","r","y">>) THEN 7
     ELSE IF startsWithIgnoreCase(s, <<"s","u","m","m","a","r","y",":">>) THEN 8
     ELSE 0 : s \in {text}} : TRUE

\* .replace(/^(summary|summary:)\s*/i, '')
stripSummaryLabel(text) ==
  CHOOSE r \in
    {IF n > 0 THEN dropLeading(dropChars(s, n), WhiteSpace) ELSE s
       : s \in {text}, n \in {summaryLabelLength(text)}} : TRUE

RECURSIVE collapseWhitespace(_)
\* .replace(/\s+/g, ' ')
collapseWhitespace(text) ==
  CHOOSE r \in
    {IF s = <<>> THEN <<>>
     ELSE IF Head(s) \in WhiteSpace
       THEN <<" ">> \o collapseWhitespace(dropLeading(s, WhiteSpace))
       ELSE <<Head(s)>> \o collapseWhitespace(Tail(s)) : s \in {text}} : TRUE

Quotes == {"\"", "'"}

\* .replace(/^["']|["']$/g, '')
stripQuotes(text) ==
  CHOOSE r \in
    {IF t # <<>> /\ t[Len(t)] \in Quotes THEN SubSeq(t, 1, Len(t) - 1) ELSE t
       : t \in {IF s # <<>> /\ s[1] \in Quotes THEN Tail(s) ELSE s : s \in {text}}} : TRUE

cleanSummary(s) ==
  trim(stripQuotes(collapseWhitespace(stripSummaryLabel(stripBracketPrefix(s)))))

\* a validator that looks for "error" and "failed" in lower case only
isValidSummaryCaseSensitive(s, originalContent) ==
  \E clean \in {cleanSummary(s)} :
     /\ clean # <<>>
     /\ Len(clean) >= 20
     /\ 10 * Len(clean) < Len(originalContent) * 8
     /\ splitSpaceLength(clean) >= 10
     /\ ~includes(clean, <<"e","r","r","o","r">>)
     /\ ~includes(clean, <<"f","a","i","l","e","d">>)
     /\ ~includes(clean, <<"u","n","d","e","f","i","n","e","d">>)

isValidSummary(s, originalContent) ==
  \E clean \in {cleanSummary(s)} :
     /\ clean # <<>>
     /\ Len(clean) >= 20
     /\ 10 * Len(clean) < Len(originalContent) * 8
     /\ splitSpaceLength(clean) >= 10
     /\ ~includes(toLowerCase(clean), <<"e","r","r","o","r">>)
     /\ ~includes(toLowerCase(clean), <<"f","a","i","l","e","d">>)
     /\ ~includes(clean, <<"u","n","d","e","f","i","n","e","d">>)

----------------------------------------------------------------------------
(* Documents for the extractive summarizer: every sequence of at most      *)
(* MaxFragments fragments, each followed by its own terminator and a space *)

\* "Cats sleep all day long.": a sentence of 23 characters and 5 words
CatsSentence ==
  <<"C","a","t","s"," ","s","l","e","e","p"," ","a","l","l"," ","d","a","y",
    " ","l","o","n","g",".">>

\* "ab cd efg hijklm!": 16 characters and 4 words
SixteenSentence ==
  <<"a","b"," ","c","d"," ","e","f","g"," ","h","i","j","k","l","m","!">>

\* "a bc def ghijkl?": 15 characters and 4 words
FifteenFragment ==
  <<"a"," ","b","c"," ","d","e","f"," ","g","h","i","j","k","l","?">>

\* "alpha bravo charlie...": 19 characters but only 3 words
ThreeWordFragment ==
  <<"a","l","p","h","a"," ","b","r","a","v","o"," ","c","h","a","r","l","i",
    "e",".",".",".">>

\* "alpha  bravo charlie;": 21 characters and 3 words, which two spaces in
\* a row split into 4 pieces
TwoSpacesFragment ==
  <<"a","l","p","h","a"," "," ","b","r","a","v","o"," ","c","h","a","r","l",
    "i","e",";","!">>

Fragments ==
  <<CatsSentence, SixteenSentence, FifteenFragment, ThreeWordFragment,
    TwoSpacesFragment>>

MaxFragments == 3

RECURSIVE documentOf(_)
documentOf(fragmentIds) ==
  IF fragmentIds = <<>> THEN <<>>
  ELSE Fragments[Head(fragmentIds)] \o <<" ">> \o documentOf(Tail(fragmentIds))

Documents ==
  {documentOf(f) : f \in UNION {[1..n -> 1..Len(Fragments)] : n \in 0..MaxFragments}}

----------------------------------------------------------------------------
(* What a provider's transport call can come back with                     *)

\* " cats nap a lot and dogs bark at a moon\n": 38 characters and 10 words once trimmed
GoodText ==
  <<" ","c","a","t","s"," ","n","a","p"," ","a"," ","l","o","t"," ","a","n",
    "d"," ","d","o","g","s"," ","b","a","r","k"," ","a","t"," ","a"," ","m",
    "o","o","n","\n">>

\* "too short": 9 characters
ShortText ==
  <<"t","o","o"," ","s","h","o","r","t">>

\* "An Error came up and so the model gave no text": mentions an error
ErrorText ==
  <<"A","n"," ","E","r","r","o","r"," ","c","a","m","e"," ","u","p"," ","a",
    "n","d"," ","s","o"," ","t","h","e"," ","m","o","d","e","l"," ","g","a",
    "v","e"," ","n","o"," ","t","e","x","t">>

\* "summarization of sleeping cats": 30 characters and 4 words
FewWordsText ==
  <<"s","u","m","m","a","r","i","z","a","t","i","o","n"," ","o","f"," ","s",
    "l","e","e","p","i","n","g"," ","c","a","t","s">>

\* "Summary: cats nap a lot and dogs bark at a moon"
LabelText ==
  <<"S","u","m","m","a","r","y",":"," ","c","a","t","s"," ","n","a","p"," ",
    "a"," ","l","o","t"," ","a","n","d"," ","d","o","g","s"," ","b","a","r",
    "k"," ","a","t"," ","a"," ","m","o","o","n">>

\* "Summary [AI] cats nap a lot and dogs bark at a moon"
LabelTagText ==
  <<"S","u","m","m","a","r","y"," ","[","A","I","]"," ","c","a","t","s"," ",
    "n","a","p"," ","a"," ","l","o","t"," ","a","n","d"," ","d","o","g","s",
    " ","b","a","r","k"," ","a","t"," ","a"," ","m","o","o","n">>

ProviderTexts ==
  {GoodText, ShortText, ErrorText, FewWordsText, LabelText, LabelTagText}

\* a timeout, a transport error or non-2xx status, a body without the
\* expected field, or a body carrying a text
Replies ==
  {[kind |-> k, text |-> <<>>] : k \in {"timeout", "error", "malformed"}}
    \cup {[kind |-> "text", text |-> t] : t \in ProviderTexts}

----------------------------------------------------------------------------
(* State                                                                   *)

VARIABLES
  content,         \* the text argument of the call under way
  config,          \* its SummaryConfig argument
  pc,              \* where the call under way stands
  apiKeys,         \* cohereApiKey, huggingFaceApiKey, openAIApiKey
  idx,             \* position of the for loop of generateBestSummary, 1..4
  attempt,         \* per provider, the state of the promise method() returned
  modelsToTry,     \* generateHuggingFaceSummary: the models of its loop
  hfIdx,           \* generateHuggingFaceSummary: position of its loop
  inflight,        \* the axios.post requests that have not completed
  transportCalls,  \* per provider, the axios.post requests issued in this call
  invoked,         \* the summarizers invoked in this call, in order
  result,          \* what generateBestSummary returned or raised
  weight,          \* generateSummary: the term weights of the sentences
  top,             \* generateSummary: the indices of the joined sentences
  summary,         \* generateSummary: the returned text
  candidate,       \* isValidSummary: its summary argument
  valid,           \* isValidSummary: the returned value
  interactions,    \* the Interaction collection, in insertion order
  uniqueIndexBuilt, \* whether the server built the conditional unique index
  now,             \* Date.now(), in hours
  nextId,          \* the _id the next saved interaction gets
  savedArticles,   \* createArticle: the documents article.save() stored
  response,        \* what the last request answered
  req,             \* getRecommendations: user_id and limit of the request under way
  startedWith,     \* getRecommendations: the interactions stored when it began
  interactedArticleIds, \* getRecommendations: articleIds of the user's history
  candidateArticles,    \* getRecommendations: the articles fetched
  recommendations  \* getRecommendations: per candidate, its RecommendationScore

vars == <<content, config, pc, apiKeys, idx, attempt, modelsToTry, hfIdx,
          inflight, transportCalls, invoked, result, weight, top, summary,
          candidate, valid, interactions, uniqueIndexBuilt, now, nextId,
          savedArticles,
          response, req, startedWith, interactedArticleIds,
          candidateArticles, recommendations>>

summaryVars == <<content, config, apiKeys, idx, attempt, modelsToTry, hfIdx,
                 inflight, transportCalls, invoked, result, weight, top,
                 summary, candidate, valid>>

databaseVars == <<interactions, uniqueIndexBuilt, now, nextId, savedArticles>>

recommendationVars == <<req, startedWith, interactedArticleIds,
                        candidateArticles, recommendations>>

storeVars == <<databaseVars, response, recommendationVars>>

serviceVars == <<apiKeys, idx, attempt, modelsToTry, hfIdx, inflight,
                 transportCalls, invoked, result>>

extractiveVars == <<weight, top, summary>>

validatorVars == <<candidate, valid>>

ProviderNames == <<"ollama", "cohere", "huggingface", "openai">>

Providers == {ProviderNames[i] : i \in 1..4}

NoResult == [summary |-> <<>>, provider |-> "", model |-> "", method |-> "none"]

\* no generateBestSummary call is under way
ServiceIdle ==
  /\ apiKeys = [cohere |-> "", huggingface |-> "", openai |-> ""]
  /\ idx = 1
  /\ attempt = [p \in Providers |->
                  [status |-> "idle", value |-> <<>>, model |-> "", raw |-> <<>>]]
  /\ modelsToTry = <<>>
  /\ hfIdx = 1
  /\ inflight = {}
  /\ transportCalls = [p \in Providers |-> 0]
  /\ invoked = <<>>
  /\ result = NoResult

ExtractiveIdle == weight = <<>> /\ top = <<>> /\ summary = <<>>

ValidatorIdle == candidate = <<>> /\ valid = FALSE

NoResponse == [status |-> 0, message |-> "", data |-> <<>>]

NoRequest == [userId |-> 0, limit |-> 0]

\* no recommendation request is under way
RecommendationIdle ==
  /\ req = NoRequest
  /\ startedWith = {}
  /\ interactedArticleIds = <<>>
  /\ candidateArticles = <<>>
  /\ recommendations = <<>>

\* the database is not in use
StoreIdle ==
  /\ interactions = <<>>
  /\ uniqueIndexBuilt = FALSE
  /\ now = 0
  /\ nextId = 1
  /\ savedArticles = <<>>
  /\ response = NoResponse
  /\ RecommendationIdle

\* the summary engine is not in use
SummaryIdle ==
  /\ content = <<>>
  /\ config = [maxSentences |-> <<>>, model |-> <<>>]
  /\ ServiceIdle
  /\ ExtractiveIdle
  /\ ValidatorIdle

----------------------------------------------------------------------------
(* AISummaryService.generateBestSummary and its four providers             *)

MaxArticleFragments == 2

MaxWeight == 2

\* the weights calculateSentenceScores can see for n sentences
Weights(n) == [1..n -> 0..MaxWeight]

Articles ==
  {documentOf(f) :
     f \in UNION {[1..n -> 1..Len(Fragments)] : n \in 0..MaxArticleFragments}}

\* the SummaryConfig values of the callers: generateSummaryForArticle sets
\* maxSentences to 3, summarize passes the request's maxSentences on; model
\* is open to any caller of the exported class
Configs ==
  [maxSentences : {<<>>, <<0>>, <<1>>},
   model : {<<>>, <<"t5-small">>, <<"mistral">>}]

\* const { model = dflt } = config
modelOf(cfg, dflt) == IF cfg.model = <<>> THEN dflt ELSE cfg.model[1]

\* a provider that sends although its key is empty
credentialMissingIgnored(apiKey) == FALSE

\* if (!this.cohereApiKey), and the same test of the two other keys
credentialMissing(apiKey) == apiKey = ""

\* the promise of a provider method from what its transport call came back
\* with: rejected on a timeout, an error, a missing field, or a trimmed text
\* that is empty or shorter than 10; else resolved with the cleaned text
\* (raw keeps the text of the response body the cleaned text was made from)
settle(reply, model) ==
  IF reply.kind = "text" /\ Len(trim(reply.text)) >= 10
    THEN [status |-> "resolved", value |-> cleanSummary(trim(reply.text)),
          model |-> model, raw |-> reply.text]
    ELSE [status |-> "rejected", value |-> <<>>, model |-> model, raw |-> <<>>]

Rejected == [status |-> "rejected", value |-> <<>>, model |-> "", raw |-> <<>>]

Pending == [status |-> "pending", value |-> <<>>, model |-> "", raw |-> <<>>]

Idle == [status |-> "idle", value |-> <<>>, model |-> "", raw |-> <<>>]

Failed == [status |-> "failed", value |-> <<>>, model |-> "", raw |-> <<>>]

freeModels == <<"sshleifer/distilbart-cnn-12-6", "t5-small">>

\* every model of providers.huggingface.models
huggingFaceModelsAll(model) ==
  freeModels \o <<"facebook/bart-large-cnn">>

\* freeModels.includes(model) ? [model, ...freeModels.filter(m => m !== model)]
\*                            : freeModels
huggingFaceModelsToTry(model) ==
  IF \E i \in 1..Len(freeModels) : freeModels[i] = model
    THEN <<model>> \o SelectSeq(freeModels, LAMBDA m : m # model)
    ELSE freeModels

\* the providers array started all at once
mayInvokeEagerly(i) ==
  pc \in {"loop", "await"} /\ attempt[ProviderNames[i]].status = "idle"

\* the for loop of generateBestSummary has reached providers[i] and calls
\* its method; it awaits the returned promise before it goes on
mayInvoke(i) == pc = "loop" /\ idx = i

\* a provider method issues axios.post
send(provider, model) ==
  /\ inflight' = inflight \cup {[provider |-> provider, model |-> model]}
  /\ transportCalls' = [transportCalls EXCEPT ![provider] = @ + 1]
  /\ attempt' = [attempt EXCEPT ![provider] = Pending]

\* a provider method throws before any request
throwEarly(provider) ==
  /\ attempt' = [attempt EXCEPT ![provider] = Rejected]
  /\ UNCHANGED <<inflight, transportCalls>>

ServiceInit ==
  /\ apiKeys \in [{"cohere", "huggingface", "openai"} -> {"", "key"}]
  /\ content = <<>>
  /\ config = [maxSentences |-> <<>>, model |-> <<>>]
  /\ pc = "idle"
  /\ idx = 1
  /\ attempt = [p \in Providers |-> Idle]
  /\ modelsToTry = <<>>
  /\ hfIdx = 1
  /\ inflight = {}
  /\ transportCalls = [p \in Providers |-> 0]
  /\ invoked = <<>>
  /\ result = NoResult
  /\ ExtractiveIdle
  /\ StoreIdle
  /\ ValidatorIdle

\* a caller enters generateBestSummary(content, config)
generateBestSummary ==
  /\ pc = "idle"
  /\ content' \in Articles
  /\ config' \in Configs
  /\ pc' = "loop"
  /\ UNCHANGED <<storeVars, serviceVars, extractiveVars, validatorVars>>

\* generateOllamaSummary(content, { ...config, model: 'llama2' }) up to its
\* await
generateOllamaSummary ==
  /\ mayInvoke(1)
  /\ send("ollama", modelOf([config EXCEPT !.model = <<"llama2">>], "llama2"))
  /\ invoked' = Append(invoked, "ollama")
  /\ pc' = "await"
  /\ UNCHANGED <<storeVars, content, config, apiKeys, idx, modelsToTry, hfIdx, result,
                 extractiveVars, validatorVars>>

\* generateCohereSummary(content, config) up to its await
generateCohereSummary ==
  /\ mayInvoke(2)
  /\ IF credentialMissing(apiKeys.cohere)
       THEN throwEarly("cohere")
       ELSE send("cohere", modelOf(config, "command-light"))
  /\ invoked' = Append(invoked, "cohere")
  /\ pc' = "await"
  /\ UNCHANGED <<storeVars, content, config, apiKeys, idx, modelsToTry, hfIdx, result,
                 extractiveVars, validatorVars>>

\* generateHuggingFaceSummary(content, config) up to its first await
generateHuggingFaceSummary ==
  /\ mayInvoke(3)
  /\ IF credentialMissing(apiKeys.huggingface)
       THEN /\ throwEarly("huggingface")
            /\ UNCHANGED <<modelsToTry, hfIdx>>
       ELSE LET models ==
                  huggingFaceModelsToTry(modelOf(config, "sshleifer/distilbart-cnn-12-6"))
            IN /\ modelsToTry' = models
               /\ hfIdx' = 1
               /\ send("huggingface", models[1])
  /\ invoked' = Append(invoked, "huggingface")
  /\ pc' = "await"
  /\ UNCHANGED <<storeVars, content, config, apiKeys, idx, result, extractiveVars,
                 validatorVars>>

\* generateOpenAISummary(content, config) up to its await
generateOpenAISummary ==
  /\ mayInvoke(4)
  /\ IF credentialMissing(apiKeys.openai)
       THEN throwEarly("openai")
       ELSE send("openai", modelOf(config, "gpt-3.5-turbo"))
  /\ invoked' = Append(invoked, "openai")
  /\ pc' = "await"
  /\ UNCHANGED <<storeVars, content, config, apiKeys, idx, modelsToTry, hfIdx, result,
                 extractiveVars, validatorVars>>

\* the rest of generateOllamaSummary, generateCohereSummary or
\* generateOpenAISummary once its axios.post has completed
providerCompletes(provider) ==
  /\ \E request \in inflight, reply \in Replies :
       /\ request.provider = provider
       /\ inflight' = inflight \ {request}
       /\ attempt' = [attempt EXCEPT ![provider] = settle(reply, request.model)]
  /\ UNCHANGED <<storeVars, content, config, pc, apiKeys, idx, modelsToTry, hfIdx,
                 transportCalls, invoked, result, extractiveVars, validatorVars>>

ollamaCompletes == providerCompletes("ollama")

cohereCompletes == providerCompletes("cohere")

openAICompletes == providerCompletes("openai")

\* the rest of one iteration of the loop of generateHuggingFaceSummary once
\* its axios.post has completed: return the cleaned text, or throw after the
\* last model, or go round the loop and send to the next model
huggingFaceCompletes ==
  /\ \E request \in inflight, reply \in Replies :
       /\ request.provider = "huggingface"
       /\ LET settled == settle(reply, request.model)
          IN IF settled.status = "rejected" /\ hfIdx < Len(modelsToTry)
               THEN /\ hfIdx' = hfIdx + 1
                    /\ inflight' = (inflight \ {request}) \cup
                         {[provider |-> "huggingface",
                           model |-> modelsToTry[hfIdx + 1]]}
                    /\ transportCalls' =
                         [transportCalls EXCEPT !["huggingface"] = @ + 1]
                    /\ UNCHANGED attempt
               ELSE /\ inflight' = inflight \ {request}
                    /\ attempt' = [attempt EXCEPT !["huggingface"] = settled]
                    /\ UNCHANGED <<hfIdx, transportCalls>>
  /\ UNCHANGED <<storeVars, content, config, pc, apiKeys, idx, modelsToTry, invoked,
                 result, extractiveVars, validatorVars>>

\* a loop body without its catch
loopStepUncaught(settled, text, cfg, name) ==
  IF settled.status = "rejected"
    THEN [kind |-> "throw", value |-> NoResult]
    ELSE IF isValidSummary(settled.value, text)
      THEN [kind |-> "return",
            value |-> [summary |-> settled.value, provider |-> name,
                       model |-> modelOf(cfg, "default"), method |-> "ai"]]
      ELSE [kind |-> "continue", value |-> NoResult]

\* a loop body that returns the candidate unvalidated
loopStepUnvalidated(settled, text, cfg, name) ==
  IF settled.status = "rejected"
    THEN [kind |-> "continue", value |-> NoResult]
    ELSE [kind |-> "return",
          value |-> [summary |-> settled.value, provider |-> name,
                     model |-> modelOf(cfg, "default"), method |-> "ai"]]

\* the body of the for loop after the await: what it does with the settled
\* promise of providers[idx]; config.model || 'default' is the result's model
loopStep(settled, text, cfg, name) ==
  IF settled.status = "rejected"
    THEN [kind |-> "continue", value |-> NoResult]
    ELSE IF isValidSummary(settled.value, text)
      THEN [kind |-> "return",
            value |-> [summary |-> settled.value, provider |-> name,
                       model |-> modelOf(cfg, "default"), method |-> "ai"]]
      ELSE [kind |-> "continue", value |-> NoResult]

\* generateBestSummary resumes after await method()
resume ==
  /\ pc = "await"
  /\ attempt[ProviderNames[idx]].status \in {"resolved", "rejected"}
  /\ LET name == ProviderNames[idx]
         step == loopStep(attempt[name], content, config, name)
     IN \/ /\ step.kind = "return"
           /\ result' = step.value
           /\ attempt' = [attempt EXCEPT ![name].status = "won"]
           /\ pc' = "returned"
           /\ idx' = idx
        \/ /\ step.kind = "continue"
           /\ attempt' = [attempt EXCEPT ![name] = Failed]
           /\ pc' = (IF idx = 4 THEN "fallback" ELSE "loop")
           /\ idx' = (IF idx = 4 THEN idx ELSE idx + 1)
           /\ result' = result
        \/ /\ step.kind = "throw"
           /\ result' = [summary |-> <<>>, provider |-> name,
                         model |-> "", method |-> "raised"]
           /\ attempt' = [attempt EXCEPT ![name] = Failed]
           /\ pc' = "returned"
           /\ idx' = idx
  /\ UNCHANGED <<storeVars, content, config, apiKeys, modelsToTry, hfIdx, inflight,
                 transportCalls, invoked, extractiveVars, validatorVars>>

\* after the loop: this.extractiveFallback.generateSummary(content, config)
extractiveFallback ==
  /\ pc = "fallback"
  /\ LET sentences == splitIntoSentences(content)
     IN \E w \in (IF returnsAllSentences(sentences, maxSentencesOf(config))
                    THEN {<<>>} ELSE Weights(Len(sentences))) :
          result' = [summary |-> generateSummary(content, config, w),
                     provider |-> "extractive", model |-> "tf-idf",
                     method |-> "extractive"]
  /\ invoked' = Append(invoked, "extractive")
  /\ pc' = "returned"
  /\ UNCHANGED <<storeVars, content, config, apiKeys, idx, attempt, modelsToTry, hfIdx,
                 inflight, transportCalls, extractiveVars, validatorVars>>

Next ==
  \/ generateBestSummary
  \/ generateOllamaSummary
  \/ ollamaCompletes
  \/ generateCohereSummary
  \/ cohereCompletes
  \/ generateHuggingFaceSummary
  \/ huggingFaceCompletes
  \/ generateOpenAISummary
  \/ openAICompletes
  \/ resume
  \/ extractiveFallback

Spec == ServiceInit /\ [][Next]_vars

\* every provider call returns or times out, and the event loop runs every
\* continuation that is ready
FairSpec == Spec /\ WF_vars(Next)

----------------------------------------------------------------------------
(* Properties of generateBestSummary (Spec, FairSpec)                      *)

IsPrefix(a, b) == Len(a) <= Len(b) /\ a = SubSeq(b, 1, Len(a))

ChainOrder == <<"ollama", "cohere", "huggingface", "openai", "extractive">>

Keyed == {"cohere", "huggingface", "openai"}

AllFailed == \A p \in Providers : attempt[p].status = "failed"

\* C1: the summarizers are invoked in the order ollama, cohere, huggingface,
\* openai, extractive; a provider is invoked only after every earlier one
\* has finished as a failure or a validator rejection; at most one provider
\* attempt and at most one request are in progress.
C1_SequentialChain ==
  /\ IsPrefix(invoked, ChainOrder)
  /\ Cardinality({p \in Providers : attempt[p].status = "pending"}) <= 1
  /\ Cardinality(inflight) <= 1
  /\ \A i \in 1..4 :
       attempt[ProviderNames[i]].status # "idle" =>
         \A j \in 1..(i - 1) : attempt[ProviderNames[j]].status = "failed"
  /\ Len(invoked) = 5 => AllFailed

\* openai's request is in flight after the three earlier providers, two of
\* them with a request of their own, have failed
C1_Witness ==
  /\ attempt["openai"].status = "pending"
  /\ transportCalls["cohere"] = 1
  /\ transportCalls["huggingface"] >= 1
  /\ \A j \in 1..3 : attempt[ProviderNames[j]].status = "failed"

\* C2 as claimed: when all four providers fail, the result is the extractive
\* one and its summary is never empty.
C2_FallbackNeverEmpty ==
  (pc = "returned" /\ AllFailed) =>
     /\ result.method = "extractive"
     /\ result.provider = "extractive"
     /\ result.model = "tf-idf"
     /\ result.summary # <<>>

\* C2 amended: when all four providers fail, the result is the extractive
\* one; its summary is non-empty when at least one sentence survives the
\* noise filter and maxSentences is at least 1, and empty when no sentence
\* survives.
C2_FallbackResult ==
  (pc = "returned" /\ AllFailed) =>
     /\ result.method = "extractive"
     /\ result.provider = "extractive"
     /\ result.model = "tf-idf"
     /\ (Len(splitIntoSentences(content)) >= 1 /\ maxSentencesOf(config) >= 1)
          => Len(result.summary) > 15
     /\ splitIntoSentences(content) = <<>> => result.summary = <<>>

\* the fallback chose one sentence out of two after all four providers failed
C2_Witness ==
  /\ pc = "returned"
  /\ AllFailed
  /\ result.method = "extractive"
  /\ Len(splitIntoSentences(content)) = 2
  /\ maxSentencesOf(config) = 1
  /\ result.summary # <<>>

\* C3: whatever the providers come back with, generateBestSummary raises no
\* error to its caller and eventually returns a result.
C3_AlwaysReturns ==
  /\ [](result.method # "raised")
  /\ <>(pc = "returned" /\ result.method \in {"ai", "extractive"})

\* a call has returned after requests to all four providers failed
C3_Witness ==
  /\ pc = "returned"
  /\ result.method = "extractive"
  /\ \A p \in Providers : transportCalls[p] >= 1

\* C4: a resolved candidate that the validator accepts is returned at once
\* with method 'ai' and no further request or summarizer; a candidate it
\* rejects is not returned; nothing happens after the return.
C4_StopsAtFirstAccepted ==
  [][/\ (pc = "await" /\ attempt[ProviderNames[idx]].status = "resolved") =>
          IF isValidSummary(attempt[ProviderNames[idx]].value, content)
            THEN /\ pc' = "returned"
                 /\ result'.method = "ai"
                 /\ result'.summary = attempt[ProviderNames[idx]].value
                 /\ UNCHANGED <<transportCalls, invoked, inflight>>
                 /\ inflight = {}
                 /\ "extractive" \notin {invoked[k] : k \in 1..Len(invoked)}
                 /\ \A j \in (idx + 1)..4 :
                      /\ attempt'[ProviderNames[j]].status = "idle"
                      /\ transportCalls'[ProviderNames[j]] = 0
            ELSE pc' # "returned" /\ result' = NoResult
     /\ result'.method = "ai" =>
          /\ pc = "await"
          /\ attempt[ProviderNames[idx]].status = "resolved"
          /\ isValidSummary(result'.summary, content)
     /\ pc # "returned"
    ]_vars

\* cohere's candidate was returned after ollama's attempt failed
C4_Witness ==
  /\ pc = "returned"
  /\ result.method = "ai"
  /\ result.provider = "cohere"
  /\ attempt["ollama"].status = "failed"
  /\ attempt["huggingface"].status = "idle"

\* C5 as claimed: the result of an accepted candidate names the provider
\* that produced the text and the model that provider was called with.
C5_WinnerIdentity ==
  (pc = "returned" /\ result.method = "ai") =>
     /\ result.provider = ProviderNames[idx]
     /\ attempt[result.provider].status = "won"
     /\ result.model = attempt[result.provider].model

\* C6 as claimed: no provider issues more than one transport call.
C6_OneCallPerProvider ==
  \A p \in Providers : transportCalls[p] <= 1

\* C6 amended: ollama, cohere and openai issue at most one transport call
\* each; huggingface issues at most two, one per model of its list, the
\* second only after the request to the first model failed.
C6_CallsPerProvider ==
  /\ \A p \in Providers \ {"huggingface"} : transportCalls[p] <= 1
  /\ transportCalls["huggingface"] <= 2
  /\ transportCalls["huggingface"] =
       (IF attempt["huggingface"].status = "idle" \/ credentialMissing(apiKeys.huggingface)
          THEN 0 ELSE hfIdx)
  /\ \A r \in inflight :
       r.provider = "huggingface" => r.model = modelsToTry[hfIdx]
  /\ Cardinality(inflight) <= 1

\* huggingface has sent to its second model
C6_Witness ==
  /\ transportCalls["huggingface"] = 2
  /\ hfIdx = 2
  /\ [provider |-> "huggingface", model |-> modelsToTry[2]] \in inflight

\* C7: a provider with an empty API key issues no transport call and its
\* attempt fails; with no key at all, ollama is the only provider called
\* before the extractive fallback runs.
C7_NoCallWithoutCredential ==
  /\ \A p \in Keyed :
       apiKeys[p] = "" =>
         /\ transportCalls[p] = 0
         /\ \A r \in inflight : r.provider # p
         /\ attempt[p].status \in {"idle", "rejected", "failed"}
  /\ ((\A p \in Keyed : apiKeys[p] = "") /\ result.method = "extractive") =>
         /\ invoked = ChainOrder
         /\ transportCalls["ollama"] = 1
         /\ \A p \in Keyed : transportCalls[p] = 0 /\ attempt[p].status = "failed"

\* without any key the chain went through all four providers to the fallback
C7_Witness ==
  /\ \A p \in Keyed : apiKeys[p] = ""
  /\ pc = "returned"
  /\ result.method = "extractive"
  /\ invoked = ChainOrder
  /\ transportCalls["ollama"] = 1

----------------------------------------------------------------------------
(* ExtractiveSummarizer.generateSummary on its own                         *)

(* The request body's maxSentences is not range-checked: limits below zero   *)
(* down to -MaxBelowZero are drawn as well.                                 *)
MaxBelowZero == 2

MaxSentences == 3

SentenceLimits == {<<>>} \cup {<<n>> : n \in (0 - MaxBelowZero)..MaxSentences}

ExtractiveInit ==
  /\ content \in Documents
  /\ config \in [maxSentences : SentenceLimits, model : {<<>>}]
  /\ pc = "generateSummary"
  /\ ServiceIdle
  /\ ExtractiveIdle
  /\ StoreIdle
  /\ ValidatorIdle

ExtractiveGenerateSummary ==
  /\ pc = "generateSummary"
  /\ LET sentences == splitIntoSentences(content)
         n == Len(sentences)
     IN \E w \in (IF returnsAllSentences(sentences, maxSentencesOf(config))
                    THEN {<<>>} ELSE Weights(n)) :
          LET items == topSentences(sentences, maxSentencesOf(config), w)
          IN /\ weight' = w
             /\ top' = [i \in 1..Len(items) |-> items[i].index]
             /\ summary' = generateSummary(content, config, w)
  /\ pc' = "returned"
  /\ UNCHANGED <<storeVars, content, config, serviceVars, validatorVars>>

ExtractiveNext == ExtractiveGenerateSummary

SpecExtractive == ExtractiveInit /\ [][ExtractiveNext]_vars

----------------------------------------------------------------------------
(* AISummaryService.isValidSummary on its own                              *)

MaxWords == 11

MaxContentLength == 60

\* n copies of word
repeat(word, n) == [i \in 1..n |-> word]

\* the closing words of a candidate: harmless, or one the validator looks for
\* in some letter case, or one that contains it
ClosingWords ==
  {<<"o","k">>,
   <<"e","r","r","o","r">>, <<"T","e","r","r","O","R","s">>,
   <<"f","a","i","l","e","d">>, <<"F","a","i","l","e","d">>,
   <<"u","n","d","e","f","i","n","e","d">>, <<"U","n","d","e","f","i","n","e","d">>}

\* what can surround the words of a candidate
wrap(kind, body) ==
  CASE kind = "plain"   -> body
    [] kind = "quoted"  -> <<"\"">> \o body \o <<"\"">>
    [] kind = "tagged"  -> <<"[","A","I","]"," ">> \o body
    [] kind = "label"   -> <<"S","u","m","m","a","r","y"," ">> \o body
    [] kind = "spaced"  -> <<" ">> \o body \o <<"\n">>

Wrappings == {"plain", "quoted", "tagged", "label", "spaced"}

\* candidates: up to MaxWords one- or three-letter words and a closing word
Candidates ==
  {wrap(k, join(repeat(w, n) \o <<c>>)) :
     k \in Wrappings, w \in {<<"a">>, <<"c","a","t">>},
     n \in 0..MaxWords, c \in ClosingWords}

\* source documents, of which the validator reads the length only
Originals == {repeat("x", n) : n \in {0, 24, 25, 26, 49, 50, MaxContentLength}}

ValidatorInit ==
  /\ candidate \in Candidates
  /\ content \in Originals
  /\ config = [maxSentences |-> <<>>, model |-> <<>>]
  /\ valid = FALSE
  /\ pc = "isValidSummary"
  /\ ServiceIdle
  /\ ExtractiveIdle
  /\ StoreIdle

ValidatorIsValidSummary ==
  /\ pc = "isValidSummary"
  /\ valid' = isValidSummary(candidate, content)
  /\ pc' = "returned"
  /\ UNCHANGED <<storeVars, content, config, candidate, serviceVars, extractiveVars>>

ValidatorNext == ValidatorIsValidSummary

SpecValidator == ValidatorInit /\ [][ValidatorNext]_vars

----------------------------------------------------------------------------
(* Properties of isValidSummary (SpecValidator)                            *)

\* the number of maximal runs of characters other than white space
WordCount(s) ==
  Cardinality({i \in 1..Len(s) :
                 s[i] \notin WhiteSpace /\ (i = 1 \/ s[i - 1] \in WhiteSpace)})

\* s contains word, a lower-case text, in any letter case
ContainsAnyCase(s, word) ==
  \E i \in 0..(Len(s) - Len(word)) :
     \A k \in 1..Len(word) : toLowerCaseChar(s[i + k]) = word[k]

\* s contains word letter for letter
Contains(s, word) ==
  \E i \in 0..(Len(s) - Len(word)) : \A k \in 1..Len(word) : s[i + k] = word[k]

\* C8: the validator rejects a candidate exactly when its cleaned text is
\* shorter than 20 characters, or at least 80% as long as the source
\* document, or has fewer than 10 words, or contains "error" or "failed" in
\* any letter case, or contains "undefined"; it accepts every other one.
C8_ValidatorRule ==
  pc = "returned" =>
    LET c == cleanSummary(candidate)
    IN valid = ~ \/ Len(c) < 20
                 \/ 5 * Len(c) >= 4 * Len(content)
                 \/ WordCount(c) < 10
                 \/ ContainsAnyCase(c, <<"e","r","r","o","r">>)
                 \/ ContainsAnyCase(c, <<"f","a","i","l","e","d">>)
                 \/ Contains(c, <<"u","n","d","e","f","i","n","e","d">>)

\* a candidate of exactly 20 characters and 10 words once cleaned was
\* accepted against a document of 26 characters
C8_Witness ==
  /\ pc = "returned"
  /\ valid
  /\ candidate # cleanSummary(candidate)
  /\ Len(cleanSummary(candidate)) = 20
  /\ WordCount(cleanSummary(candidate)) = 10
  /\ Len(content) = 26

----------------------------------------------------------------------------
(* Properties of ExtractiveSummarizer.generateSummary (SpecExtractive)     *)

\* the sentences of the document under way that survive the noise filter
Survivors == splitIntoSentences(content)

\* no white space at either end
IsTrimmed(s) == s = <<>> \/ (s[1] \notin WhiteSpace /\ s[Len(s)] \notin WhiteSpace)

\* t is the texts of parts, in order, with exactly one space between two
\* neighbours and nothing else
IsSpaceJoined(t, parts) ==
  LET start(i) == Len(join(SubSeq(parts, 1, i - 1))) + (IF i > 1 THEN 1 ELSE 0)
  IN /\ Len(t) = Len(join(parts))
     /\ \A i \in 1..Len(parts) :
          /\ SubSeq(t, start(i) + 1, start(i) + Len(parts[i])) = parts[i]
          /\ i < Len(parts) => t[start(i) + Len(parts[i]) + 1] = " "

\* C9: when at most maxSentences sentences survive the noise filter (exactly
\* maxSentences included), generateSummary returns all of them, trimmed, in
\* original order, joined by a single space, and computes no score; with no
\* surviving sentence it returns the empty string.
C9_AllSentencesUnscored ==
  (pc = "returned" /\ Len(Survivors) <= maxSentencesOf(config)) =>
     /\ IsSpaceJoined(summary, Survivors)
     /\ \A i \in 1..Len(Survivors) : IsTrimmed(Survivors[i])
     /\ weight = <<>>
     /\ (Survivors = <<>> => summary = <<>>)

\* a document with exactly maxSentences surviving sentences, two of them, has
\* been summarized
C9_Witness ==
  /\ pc = "returned"
  /\ Len(Survivors) = 2
  /\ maxSentencesOf(config) = 2
  /\ Len(summary) > 30

\* C10: the sentences of the extractive summary are sentences of the filtered
\* input taken at strictly increasing original indices, whatever the scores.
C10_IncreasingIndexOrder ==
  pc = "returned" =>
     /\ \A i \in 1..Len(top) : top[i] \in 0..(Len(Survivors) - 1)
     /\ \A i \in 1..Len(top), j \in 1..Len(top) : i < j => top[i] < top[j]
     /\ IsSpaceJoined(summary, [i \in 1..Len(top) |-> Survivors[top[i] + 1]])

\* two sentences were selected of which the later one scores higher
C10_Witness ==
  /\ pc = "returned"
  /\ weight # <<>>
  /\ Len(top) = 2
  /\ LET scores == calculateSentenceScores(Survivors, weight)
     IN scores[top[2] + 1].score > scores[top[1] + 1].score

\* the score calculateSentenceScores gave the sentence at original index i
ScoreAt(i) == calculateSentenceScores(Survivors, weight)[i + 1].score

\* the original indices that were selected
Selected == {top[i] : i \in 1..Len(top)}

\* C11: when more than N = maxSentences sentences survive the filter and
\* N >= 1, the extractive summary has exactly N sentences, the N highest
\* scoring ones, and of two sentences with equal scores the one with the
\* smaller original index is selected first.
C11_TopNStableTies ==
  (pc = "returned" /\ maxSentencesOf(config) >= 1
                   /\ Len(Survivors) > maxSentencesOf(config)) =>
     /\ Len(top) = maxSentencesOf(config)
     /\ Cardinality(Selected) = maxSentencesOf(config)
     /\ \A i \in Selected, j \in (0..(Len(Survivors) - 1)) \ Selected :
          \/ ScoreAt(i) > ScoreAt(j)
          \/ (ScoreAt(i) = ScoreAt(j) /\ i < j)

\* a tie at the cut: a selected sentence and a later one left out have the
\* same positive score
C11_Witness ==
  /\ pc = "returned"
  /\ weight # <<>>
  /\ maxSentencesOf(config) >= 1
  /\ Len(Survivors) > maxSentencesOf(config)
  /\ \E i \in Selected, j \in (0..(Len(Survivors) - 1)) \ Selected :
        ScoreAt(i) = ScoreAt(j) /\ ScoreAt(i) > 0

----------------------------------------------------------------------------
(* The stores the recommendation service and the interaction controller    *)
(* work on.  An ObjectId is a positive integer; times are in hours.        *)

Ai == <<"a","i">>

Tech == <<"t","e","c","h">>

Technology == <<"t","e","c","h","n","o","l","o","g","y">>

Paint == <<"p","a","i","n","t">>

Art == <<"a","r","t">>

\* the User collection: the user with _id i is Users[i]
Users ==
  <<[interests |-> <<Ai>>],
    [interests |-> <<Tech, Art, Ai>>],
    [interests |-> <<>>]>>

\* the Article collection in natural order: the article with _id i is
\* ArticleStore[i]; createdAt is relative to the first instant of the clock
ArticleStore ==
  <<[_id |-> 1, tags |-> <<Ai, Technology>>, author |-> "ann", createdAt |-> -48],
    [_id |-> 2, tags |-> <<Paint>>,          author |-> "ann", createdAt |-> -2161],
    [_id |-> 3, tags |-> <<>>,               author |-> "bob", createdAt |-> 0],
    [_id |-> 4, tags |-> <<Art>>,            author |-> "ann", createdAt |-> -168]>>

\* an id no document has, and a string that is no ObjectId
UnknownId == 9

MalformedId == 0

\* whether mongoose can cast the id to an ObjectId
isObjectId(id) == id > 0

\* Model.findById: <<>> for null, else the document in a one-element tuple
findUserById(id) == IF id \in DOMAIN Users THEN <<Users[id]>> ELSE <<>>

findArticleById(id) == IF id \in DOMAIN ArticleStore THEN <<ArticleStore[id]>> ELSE <<>>

InteractionTypes == {"view", "like", "share", "comment"}

----------------------------------------------------------------------------
(* RecommendationService: the four signals and the combined score.  A      *)
(* score is an exact fraction <<numerator, denominator>> of 1; popularity  *)
(* and freshness are in hundredths.                                        *)

\* userInterests.filter(interest => articleTags.some(tag =>
\*   tag.includes(interest) || interest.includes(tag)))
getMatchingInterests(userInterests, articleTags) ==
  LET matches(interest) ==
        \E t \in 1..Len(articleTags) :
           includes(articleTags[t], interest) \/ includes(interest, articleTags[t])
  IN SelectSeq(userInterests, matches)

\* the matches divided by the number of tags
calculateInterestScoreOverTags(userInterests, articleTags) ==
  IF Len(userInterests) = 0 \/ Len(articleTags) = 0 THEN <<0, 1>>
  ELSE <<Len(getMatchingInterests(userInterests, articleTags)), Len(articleTags)>>

calculateInterestScore(userInterests, articleTags) ==
  IF Len(userInterests) = 0 \/ Len(articleTags) = 0 THEN <<0, 1>>
  ELSE <<Len(getMatchingInterests(userInterests, articleTags)), Len(userInterests)>>

\* const weights = { view: 1, like: 3, share: 5, comment: 4 }
weights(type) ==
  CASE type = "view" -> 1 [] type = "like" -> 3
    [] type = "share" -> 5 [] type = "comment" -> 4

\* the $match / $group aggregate and the sum over its groups
totalScore(articleId, store) ==
  LET count(type) ==
        Cardinality({i \in 1..Len(store) :
                       store[i].articleId = articleId /\ store[i].interactionType = type})
      term(type) == count(type) * weights(type)
  IN term("view") + term("like") + term("share") + term("comment")

\* Math.min(totalScore / 100, 1), in hundredths
calculatePopularityScore(articleId, store) ==
  IF totalScore(articleId, store) > 100 THEN 100 ELSE totalScore(articleId, store)

\* in hundredths; clock is new Date()
calculateFreshnessScore(createdAt, clock) ==
  LET ageInHours == clock - createdAt
  IN IF ageInHours <= 24 THEN 100
     ELSE IF ageInHours <= 7 * 24 THEN 90
     ELSE IF ageInHours <= 30 * 24 THEN 70
     ELSE IF ageInHours <= 90 * 24 THEN 40
     ELSE 20

\* Article.find({ author }).limit(10)
authorArticles(author) ==
  LET byAuthor(article) == article.author = author
  IN SubSeq(SelectSeq(ArticleStore, byAuthor), 1,
            IF Len(SelectSeq(ArticleStore, byAuthor)) > 10
              THEN 10 ELSE Len(SelectSeq(ArticleStore, byAuthor)))

RECURSIVE sumOfPopularity(_, _)
\* scores.reduce((sum, score) => sum + score, 0), in hundredths
sumOfPopularity(articles, store) ==
  IF articles = <<>> THEN 0
  ELSE calculatePopularityScore(Head(articles)._id, store)
         + sumOfPopularity(Tail(articles), store)

\* <<sum of the popularity scores in hundredths, number of articles>>
calculateAuthorScore(author, store) ==
  IF Len(authorArticles(author)) = 0 THEN <<50, 1>>
  ELSE <<sumOfPopularity(authorArticles(author), store), Len(authorArticles(author))>>

\* the weights of interest and author exchanged
weightedSumSwapped(interest, popularity, freshness, author) ==
  <<100 * interest[1] * author[2]
      + 3 * popularity * interest[2] * author[2]
      + 2 * freshness * interest[2] * author[2]
      + 4 * author[1] * interest[2],
    1000 * interest[2] * author[2]>>

\* score += interest * 0.4, popularity * 0.3, freshness * 0.2, author * 0.1
\* over the common denominator 1000 * interest[2] * author[2]
weightedSum(interest, popularity, freshness, author) ==
  <<400 * interest[1] * author[2]
      + 3 * popularity * interest[2] * author[2]
      + 2 * freshness * interest[2] * author[2]
      + author[1] * interest[2],
    1000 * interest[2] * author[2]>>

\* Math.min(score, 1)
minOne(score) == IF score[1] > score[2] THEN <<score[2], score[2]>> ELSE score

\* the generic reason pushed whatever the signals are
reasonsOfGenericOnly(matching, popularity, freshness, author) ==
  <<[text |-> "General recommendation", interests |-> <<>>]>>

\* the reasons pushed, in the order of the code
reasonsOf(matching, popularity, freshness, author) ==
  LET specific ==
        (IF Len(matching) > 0
           THEN <<[text |-> "Matches your interests: ", interests |-> matching]>>
           ELSE <<>>)
        \o (IF popularity > 70
              THEN <<[text |-> "Popular among users", interests |-> <<>>]>> ELSE <<>>)
        \o (IF freshness > 80
              THEN <<[text |-> "Recent content", interests |-> <<>>]>> ELSE <<>>)
        \o (IF 10 * author[1] > 7 * 100 * author[2]
              THEN <<[text |-> "From popular author", interests |-> <<>>]>> ELSE <<>>)
  IN IF specific = <<>>
       THEN <<[text |-> "General recommendation", interests |-> <<>>]>>
       ELSE specific

calculateRecommendationScore(user, article, store, clock) ==
  LET interest   == calculateInterestScore(user.interests, article.tags)
      popularity == calculatePopularityScore(article._id, store)
      freshness  == calculateFreshnessScore(article.createdAt, clock)
      author     == calculateAuthorScore(article.author, store)
  IN [article |-> article._id,
      score   |-> minOne(weightedSum(interest, popularity, freshness, author)),
      reasons |-> reasonsOf(getMatchingInterests(user.interests, article.tags),
                            popularity, freshness, author)]

\* Math.round(rec.score * 100), the division by 100 left out
roundWithoutDivision(score) == 100 * ((200 * score[1] + score[2]) \div (2 * score[2]))

\* Math.round(rec.score * 100) / 100, in hundredths
roundToHundredths(score) == (200 * score[1] + score[2]) \div (2 * score[2])

----------------------------------------------------------------------------
(* The Interaction model: validation, the pre('save') hook and the         *)
(* conditional unique index.  An optional field is <<>> when it is         *)
(* undefined and <<v>> when it holds v.                                    *)

Platforms == {"twitter", "facebook", "linkedin", "email", "copy_link", "whatsapp"}

\* InteractionSchema.pre('save')
preSave(doc) ==
  [doc EXCEPT
     !.shareMetadata = IF doc.interactionType # "share" THEN <<>> ELSE @,
     !.content       = IF doc.interactionType # "comment" THEN <<>> ELSE @]

\* the enum, required and validate rules of the schema
isValidInteraction(doc) ==
  /\ doc.interactionType \in InteractionTypes
  /\ doc.interactionType = "comment" =>
       (doc.content # <<>> /\ trim(doc.content[1]) # <<>>)
  /\ doc.shareMetadata # <<>> =>
       \/ doc.shareMetadata[1].platform \in Platforms
       \/ (doc.shareMetadata[1].platform = "" /\ doc.interactionType # "share")

\* an index that takes comments in as well
violatesUniqueIndexAnyType(doc, store) ==
  \E i \in 1..Len(store) :
     /\ store[i].userId = doc.userId
     /\ store[i].articleId = doc.articleId
     /\ store[i].interactionType = doc.interactionType

\* the unique index on { userId, articleId, interactionType } with
\* partialFilterExpression { interactionType: { $ne: 'comment' } }
violatesUniqueIndex(doc, store) ==
  /\ doc.interactionType # "comment"
  /\ \E i \in 1..Len(store) :
        /\ store[i].interactionType # "comment"
        /\ store[i].userId = doc.userId
        /\ store[i].articleId = doc.articleId
        /\ store[i].interactionType = doc.interactionType

\* the store cut off at position i
removeFrom(store, i) == SubSeq(store, 1, i - 1)

\* the store without the document at position i
removeAt(store, i) == SubSeq(store, 1, i - 1) \o SubSeq(store, i + 1, Len(store))

\* res.status(status).json({ message })
reply(status, message) == [status |-> status, message |-> message, data |-> <<>>]

\* errorHandler: what an error thrown out of a handler becomes
errorHandler(name) ==
  IF name = "CastError" THEN reply(400, "Invalid resource ID format")
  ELSE reply(500, name)

----------------------------------------------------------------------------
(* InteractionController                                                   *)

MaxSaved == 2

createInteraction(user_id, article_id, interaction_type, text, shareMetadata) ==
  /\ nextId <= MaxSaved
  /\ LET interactionData ==
           [_id |-> nextId, userId |-> user_id, articleId |-> article_id,
            interactionType |-> interaction_type,
            content |-> IF interaction_type = "comment"
                          THEN <<trim(text[1])>> ELSE <<>>,
            shareMetadata |-> IF interaction_type = "share" THEN shareMetadata ELSE <<>>,
            createdAt |-> now, updatedAt |-> now]
         refuse(r) == response' = r /\ UNCHANGED <<interactions, nextId>>
     IN IF ~isObjectId(user_id) THEN refuse(errorHandler("CastError"))
        ELSE IF findUserById(user_id) = <<>> THEN refuse(reply(404, "User not found"))
        ELSE IF ~isObjectId(article_id) THEN refuse(errorHandler("CastError"))
        ELSE IF findArticleById(article_id) = <<>>
          THEN refuse(reply(404, "Article not found"))
        ELSE IF interaction_type = "comment" /\ (text = <<>> \/ trim(text[1]) = <<>>)
          THEN refuse(reply(400, "Comment content is required"))
        ELSE IF interaction_type = "share"
                  /\ (shareMetadata = <<>> \/ shareMetadata[1].platform = "")
          THEN refuse(reply(400, "Share platform is required for share interactions"))
        ELSE IF ~isValidInteraction(interactionData)
          THEN refuse(errorHandler("ValidationError"))
        ELSE IF uniqueIndexBuilt /\ violatesUniqueIndex(preSave(interactionData), interactions)
          THEN refuse(reply(409, "You have already done this"))
        ELSE /\ interactions' = Append(interactions, preSave(interactionData))
             /\ nextId' = nextId + 1
             /\ response' = [status |-> 201, message |-> "recorded successfully",
                             data |-> <<nextId>>]
  /\ UNCHANGED <<summaryVars, pc, uniqueIndexBuilt, now, savedArticles,
                 recommendationVars>>

removeInteraction(user_id, article_id, interaction_type) ==
  /\ LET matches(doc) == /\ doc.userId = user_id
                         /\ doc.articleId = article_id
                         /\ doc.interactionType = interaction_type
         found == {i \in 1..Len(interactions) : matches(interactions[i])}
         refuse(r) == response' = r /\ UNCHANGED interactions
     IN IF interaction_type = "comment"
          THEN refuse(reply(400, "Use delete endpoint to remove specific comments"))
        ELSE IF ~isObjectId(user_id) \/ ~isObjectId(article_id)
          THEN refuse(errorHandler("CastError"))
        ELSE IF found = {} THEN refuse(reply(404, "No interaction found to remove"))
        ELSE /\ interactions' =
                  removeAt(interactions, CHOOSE i \in found : \A j \in found : i <= j)
             /\ response' = reply(200, "removed successfully")
  /\ UNCHANGED <<summaryVars, pc, uniqueIndexBuilt, now, nextId, savedArticles,
                 recommendationVars>>

deleteInteraction(id) ==
  /\ LET matches(doc) == doc._id = id
         found == {i \in 1..Len(interactions) : matches(interactions[i])}
         refuse(r) == response' = r /\ UNCHANGED interactions
     IN IF ~isObjectId(id) THEN refuse(errorHandler("CastError"))
        ELSE IF found = {} THEN refuse(reply(404, "Interaction not found"))
        ELSE /\ interactions' = removeAt(interactions, CHOOSE i \in found : TRUE)
             /\ response' = reply(200, "Interaction deleted successfully")
  /\ UNCHANGED <<summaryVars, pc, uniqueIndexBuilt, now, nextId, savedArticles,
                 recommendationVars>>

\* a filter on the id alone
isAnyWithId(doc, id) == doc._id = id

\* the filter { _id: id, interactionType: 'comment' } of findOneAndUpdate
isCommentWithId(doc, id) == doc._id = id /\ doc.interactionType = "comment"

updateComment(id, text) ==
  /\ LET matches(doc) == isCommentWithId(doc, id)
         found == {i \in 1..Len(interactions) : matches(interactions[i])}
         refuse(r) == response' = r /\ UNCHANGED interactions
     IN IF text = <<>> \/ trim(text[1]) = <<>>
          THEN refuse(reply(400, "Comment content is required"))
        ELSE IF ~isObjectId(id) THEN refuse(errorHandler("CastError"))
        ELSE IF found = {} THEN refuse(reply(404, "Comment not found"))
        ELSE LET i == CHOOSE i \in found : TRUE
             IN /\ interactions' =
                     [interactions EXCEPT ![i].content = <<trim(text[1])>>,
                                          ![i].updatedAt = now]
                /\ response' = [status |-> 200, message |-> "Comment updated successfully",
                                data |-> <<id>>]
  /\ UNCHANGED <<summaryVars, pc, uniqueIndexBuilt, now, nextId, savedArticles,
                 recommendationVars>>

----------------------------------------------------------------------------
(* The interaction endpoints on their own                                  *)

MaxTicks == 3

\* half a day passes
tick ==
  /\ now < 12 * MaxTicks
  /\ now' = now + 12
  /\ UNCHANGED <<summaryVars, pc, interactions, uniqueIndexBuilt, nextId, savedArticles,
                 response, recommendationVars>>

\* the ids requests name: a user and two articles that exist, an id that
\* names nothing and one that is no ObjectId
RequestUserIds == {1, UnknownId, MalformedId}

RequestArticleIds == {1, 2, UnknownId}

RequestTypes == InteractionTypes \cup {"love"}

\* the content a request carries: none, blank, or a text to trim
Hi == <<" ", "h", "i", " ">>

Yo == <<"y", "o">>

RequestContents == {<<>>, <<<<" ">>>>, <<Hi>>, <<Yo>>}

RequestShareMetadata ==
  {<<>>,
   <<[platform |-> "", message |-> "look"]>>,
   <<[platform |-> "twitter", message |-> "look"]>>,
   <<[platform |-> "myspace", message |-> ""]>>}

InteractionsInit ==
  /\ pc = "idle"
  /\ SummaryIdle
  /\ interactions = <<>>
  /\ uniqueIndexBuilt \in BOOLEAN
  /\ now = 0
  /\ nextId = 1
  /\ savedArticles = <<>>
  /\ response = NoResponse
  /\ RecommendationIdle

InteractionsNext ==
  \/ \E u \in RequestUserIds, a \in RequestArticleIds, t \in RequestTypes,
        c \in RequestContents, m \in RequestShareMetadata :
        createInteraction(u, a, t, c, m)
  \/ \E u \in RequestUserIds, a \in RequestArticleIds, t \in RequestTypes :
        removeInteraction(u, a, t)
  \/ \E id \in (1..MaxSaved) \cup {UnknownId, MalformedId} : deleteInteraction(id)
  \/ \E id \in (1..MaxSaved) \cup {UnknownId, MalformedId}, c \in RequestContents :
        updateComment(id, c)

SpecInteractions == InteractionsInit /\ [][InteractionsNext]_vars

----------------------------------------------------------------------------
(* Properties of the interaction endpoints (SpecInteractions)              *)

\* the positions of the stored interactions of one user on one article
\* with one type
SameKey(u, a, t) ==
  {i \in 1..Len(interactions) :
     /\ interactions[i].userId = u
     /\ interactions[i].articleId = a
     /\ interactions[i].interactionType = t}

\* C19: after any sequence of createInteraction, removeInteraction,
\* deleteInteraction and updateComment requests the store holds at most one
\* interaction of each non-comment type per (user, article) pair.
C19_AtMostOneNonComment ==
  \A i \in 1..Len(interactions) :
     interactions[i].interactionType # "comment" =>
        Cardinality(SameKey(interactions[i].userId, interactions[i].articleId,
                            interactions[i].interactionType)) = 1

\* C20: every stored interaction carries comment text if and only if its
\* type is comment, and share metadata if and only if its type is share,
\* whatever the create requests supplied and after any createInteraction
\* and updateComment requests.
C20_FieldsMatchType ==
  \A i \in 1..Len(interactions) :
     /\ (interactions[i].content # <<>>) <=> (interactions[i].interactionType = "comment")
     /\ (interactions[i].shareMetadata # <<>>) <=> (interactions[i].interactionType = "share")
     /\ interactions[i].content # <<>> => interactions[i].content[1] # <<>>

\* a share with its metadata is stored beside a comment whose text
\* updateComment has just replaced
C20_Witness ==
  /\ response.status = 200
  /\ response.message = "Comment updated successfully"
  /\ \E i \in 1..Len(interactions) :
        /\ interactions[i].interactionType = "share"
        /\ interactions[i].shareMetadata # <<>>
  /\ \E i \in 1..Len(interactions) :
        /\ interactions[i].interactionType = "comment"
        /\ interactions[i].content = <<Yo>>

----------------------------------------------------------------------------
(* RecommendationController.getRecommendations and                         *)
(* RecommendationService.getRecommendations, one step per await            *)

\* a.score >= b.score on fractions
atLeast(a, b) == a[1] * b[2] >= b[1] * a[2]

\* one step of a sort that puts an item before the items of equal score
insertByRecommendationScoreUnstable(item, sorted) ==
  LET before == Cardinality({j \in 1..Len(sorted) :
                               ~atLeast(item.score, sorted[j].score)})
  IN SubSeq(sorted, 1, before) \o <<item>> \o SubSeq(sorted, before + 1, Len(sorted))

\* one step of a stable sort by descending score
insertByRecommendationScore(item, sorted) ==
  LET before == Cardinality({j \in 1..Len(sorted) :
                               atLeast(sorted[j].score, item.score)})
  IN SubSeq(sorted, 1, before) \o <<item>> \o SubSeq(sorted, before + 1, Len(sorted))

RECURSIVE sortByRecommendationScoreInto(_, _)
sortByRecommendationScoreInto(array, done) ==
  IF array = <<>> THEN done
  ELSE sortByRecommendationScoreInto(Tail(array),
                                     insertByRecommendationScore(Head(array), done))

\* recommendations.sort((a, b) => b.score - a.score)
sortByRecommendationScore(array) == sortByRecommendationScoreInto(array, <<>>)

\* a history of the views alone
articleIdsOfViews(userId, store) ==
  LET ofUser(doc) == doc.userId = userId /\ doc.interactionType = "view"
      found == SelectSeq(store, ofUser)
  IN [i \in 1..Len(found) |-> found[i].articleId]

\* Interaction.find({ userId }).select('articleId'), mapped to articleId
articleIdsOf(userId, store) ==
  LET ofUser(doc) == doc.userId = userId
      found == SelectSeq(store, ofUser)
  IN [i \in 1..Len(found) |-> found[i].articleId]

\* Query.limit(n) as the server reads it: 0 is no limit and a negative
\* number is its absolute value
limitOf(n, array) ==
  IF n = 0 THEN array
  ELSE SubSeq(array, 1, IF (IF n < 0 THEN -n ELSE n) > Len(array)
                          THEN Len(array) ELSE (IF n < 0 THEN -n ELSE n))

\* Article.find({ _id: { $nin: interactedArticleIds } }).limit(limit * 2)
findCandidates(excluded, limit) ==
  LET notExcluded(article) ==
        \A i \in 1..Len(excluded) : excluded[i] # article._id
  IN limitOf(limit * 2, SelectSeq(ArticleStore, notExcluded))

\* the controller's formattedRecommendations
format(recs) ==
  [i \in 1..Len(recs) |->
     [article |-> recs[i].article,
      score   |-> roundToHundredths(recs[i].score),
      reasons |-> recs[i].reasons]]

\* a check that finds no user at all
userNotFoundAlways(user) == TRUE

\* if (!user)
userNotFound(user) == user = <<>>

\* the request arrives; User.findById
getRecommendations(user_id, limit) ==
  /\ pc = "idle"
  /\ req' = [userId |-> user_id, limit |-> limit]
  /\ startedWith' = {interactions[i] : i \in 1..Len(interactions)}
  /\ IF ~isObjectId(user_id)
       THEN pc' = "responded" /\ response' = errorHandler("CastError")
     ELSE IF userNotFound(findUserById(user_id))
       THEN pc' = "responded" /\ response' = reply(404, "User not found")
     ELSE pc' = "findInteractions" /\ UNCHANGED response
  /\ UNCHANGED <<summaryVars, databaseVars, interactedArticleIds,
                 candidateArticles, recommendations>>

\* Interaction.find({ userId })
findInteractions ==
  /\ pc = "findInteractions"
  /\ interactedArticleIds' = articleIdsOf(req.userId, interactions)
  /\ pc' = "findArticles"
  /\ UNCHANGED <<summaryVars, databaseVars, response, req, startedWith,
                 candidateArticles, recommendations>>

\* Article.find(...).limit(limit * 2), and the return of [] when it is empty
findArticles ==
  /\ pc = "findArticles"
  /\ candidateArticles' = findCandidates(interactedArticleIds, req.limit)
  /\ recommendations' = [i \in 1..Len(candidateArticles') |-> <<>>]
  /\ IF candidateArticles' = <<>>
       THEN /\ pc' = "responded"
            /\ response' = [status |-> 200,
                            message |-> "Recommendations generated successfully",
                            data |-> <<>>]
       ELSE pc' = "scoring" /\ UNCHANGED response
  /\ UNCHANGED <<summaryVars, databaseVars, req, startedWith, interactedArticleIds>>

\* how many of the promises have settled
settledCount(results) ==
  Cardinality({j \in 1..Len(results) : results[j] # <<>>})

\* one of the promises of Promise.all settles: calculateRecommendationScore
\* of the candidate at position i; the result is kept at position i, here
\* together with the rank at which it settled
scoreCandidate(i) ==
  /\ pc = "scoring"
  /\ recommendations[i] = <<>>
  /\ recommendations' =
       [recommendations EXCEPT
          ![i] = <<calculateRecommendationScore(Users[req.userId], candidateArticles[i],
                                                interactions, now),
                   settledCount(recommendations) + 1>>]
  /\ UNCHANGED <<summaryVars, pc, databaseVars, response, req, startedWith,
                 interactedArticleIds, candidateArticles>>

\* what the service returns once every promise has settled
returned ==
  slice0(sortByRecommendationScore([i \in 1..Len(recommendations) |->
                                      recommendations[i][1]]),
         req.limit)

\* sort, slice and res.json
respond ==
  /\ pc = "scoring"
  /\ \A i \in 1..Len(recommendations) : recommendations[i] # <<>>
  /\ response' = [status |-> 200,
                  message |-> "Recommendations generated successfully",
                  data |-> format(returned)]
  /\ pc' = "responded"
  /\ UNCHANGED <<summaryVars, databaseVars, recommendationVars>>

----------------------------------------------------------------------------
(* A recommendation request, with interactions saved while it runs         *)

MaxLimit == 2

MaxHistory == 1

MaxMeanwhile == 1

\* the limits a request can carry: Number(req.query.limit) is not checked
Limits == -1..MaxLimit

\* a stored interaction as save() leaves it
interaction(id, userId, articleId, type, createdAt) ==
  [_id |-> id, userId |-> userId, articleId |-> articleId, interactionType |-> type,
   content |-> IF type = "comment" THEN <<Yo>> ELSE <<>>,
   shareMetadata |-> IF type = "share"
                       THEN <<[platform |-> "twitter", message |-> ""]>> ELSE <<>>,
   createdAt |-> createdAt, updatedAt |-> createdAt]

\* n shares of one article by n other users
shares(articleId, n, firstId) ==
  [i \in 1..n |-> interaction(firstId + i, 100 + i, articleId, "share", -1)]

\* article 1 with a weighted popularity of 50, and its author's other
\* articles with 100 and 90
Shared == shares(1, 10, 100) \o shares(2, 20, 200) \o shares(4, 18, 300)

\* what users 1 and 2 did before the request
Histories ==
  UNION {[1..n -> {interaction(400, u, a, t, -1) :
                     u \in {1, 2}, a \in {1, 2}, t \in {"view", "comment"}}]
           : n \in 0..MaxHistory}

\* the instants of the requests: at 553 every article is a freshness class
\* older than at 0
Clocks == {0, 553}

RecommendInit ==
  /\ pc = "idle"
  /\ SummaryIdle
  /\ \E crowd \in {<<>>, Shared}, history \in Histories :
        interactions = crowd \o [i \in 1..Len(history) |->
                                   [history[i] EXCEPT !._id = 400 + i]]
  /\ uniqueIndexBuilt = FALSE
  /\ now \in Clocks
  /\ nextId = 1
  /\ savedArticles = <<>>
  /\ response = NoResponse
  /\ RecommendationIdle

\* the user comments on an article while the request is under way
interactsMeanwhile ==
  /\ pc \notin {"idle", "responded"}
  /\ nextId <= MaxMeanwhile
  /\ \E a \in {1, 3} : createInteraction(req.userId, a, "comment", <<Hi>>, <<>>)

RecommendNext ==
  \/ \E u \in DOMAIN Users \cup {UnknownId, MalformedId}, l \in Limits :
        getRecommendations(u, l)
  \/ findInteractions
  \/ findArticles
  \/ \E i \in 1..Len(recommendations) : scoreCandidate(i)
  \/ respond
  \/ interactsMeanwhile

SpecRecommend == RecommendInit /\ [][RecommendNext]_vars

----------------------------------------------------------------------------
(* Properties of the recommendation request (SpecRecommend)                *)

\* the request has been answered with a list
Answered == pc = "responded" /\ response.status = 200

\* the scores the service computed so far
Scored == {recommendations[i][1] : i \in {j \in 1..Len(recommendations) :
                                            recommendations[j] # <<>>}}

\* C12: the combined score of every candidate lies in [0,1], as the service
\* computes it and as the controller answers it after rounding to 2 decimals.
C12_ScoreInUnitInterval ==
  /\ \A r \in Scored : r.score[2] > 0 /\ 0 <= r.score[1] /\ r.score[1] <= r.score[2]
  /\ Answered => \A i \in 1..Len(response.data) :
                    0 <= response.data[i].score /\ response.data[i].score <= 100

\* a list was answered in which a score of more than 0.8 was rounded and
\* another one is below 0.2
C12_Witness ==
  /\ Answered
  /\ \E r \in Scored, i \in 1..Len(response.data) :
        /\ r.article = response.data[i].article
        /\ response.data[i].score > 80
        /\ 100 * r.score[1] # response.data[i].score * r.score[2]
  /\ \E r \in Scored : 5 * r.score[1] < r.score[2]

\* the signals of a (user, article) pair over a store at an instant, written
\* from their definitions: matching interests m of n, the weighted
\* popularity in hundredths, freshness in hundredths, and the sum over the
\* author's k articles of their popularity
MatchCount(user, article) ==
  Cardinality({i \in 1..Len(user.interests) :
                 \E t \in 1..Len(article.tags) :
                    \/ Contains(article.tags[t], user.interests[i])
                    \/ Contains(user.interests[i], article.tags[t])})

Engagement(articleId, store) ==
  LET n(type) == Cardinality({i \in 1..Len(store) :
                                /\ store[i].articleId = articleId
                                /\ store[i].interactionType = type})
  IN n("view") + 3 * n("like") + 5 * n("share") + 4 * n("comment")

Popularity(articleId, store) ==
  IF Engagement(articleId, store) >= 100 THEN 100 ELSE Engagement(articleId, store)

Freshness(article, clock) ==
  CASE clock - article.createdAt <= 24   -> 100
    [] clock - article.createdAt \in 25..168    -> 90
    [] clock - article.createdAt \in 169..720   -> 70
    [] clock - article.createdAt \in 721..2160  -> 40
    [] clock - article.createdAt > 2160  -> 20

SameAuthor(article) ==
  {i \in DOMAIN ArticleStore : ArticleStore[i].author = article.author}

RECURSIVE SumOfPopularity(_, _)
SumOfPopularity(ids, store) ==
  IF ids = {} THEN 0
  ELSE LET id == CHOOSE x \in ids : TRUE
       IN Popularity(id, store) + SumOfPopularity(ids \ {id}, store)

\* score = min(1, 0.4 m/n + 0.3 p/100 + 0.2 f/100 + 0.1 s/(100 k)), with
\* both sides multiplied by 1000 n k and by the denominator of the score
IsCombinedScore(score, m, n, p, f, s, k) ==
  LET sum == 400 * m * k + 3 * p * n * k + 2 * f * n * k + s * n
      one == 1000 * n * k
  IN score[1] * one = score[2] * (IF sum > one THEN one ELSE sum)

\* C13: the combined score of a (user, article) pair equals
\* min(1, 0.4 interest + 0.3 popularity + 0.2 freshness + 0.1 author) of the
\* signals at the instant it is computed; for interest 1.0, weighted
\* popularity 50, an age of 2 days and an author score of 0.8 it is 0.81.
C13_WeightedSum ==
  [][\A i \in 1..Len(recommendations) :
       (pc = "scoring" /\ recommendations[i] = <<>> /\ recommendations'[i] # <<>>) =>
          LET user    == Users[req.userId]
              article == candidateArticles[i]
              score   == recommendations'[i][1].score
              n == IF Len(user.interests) = 0 \/ Len(article.tags) = 0
                     THEN 1 ELSE Len(user.interests)
              m == IF Len(user.interests) = 0 \/ Len(article.tags) = 0
                     THEN 0 ELSE MatchCount(user, article)
              p == Popularity(article._id, interactions)
              f == Freshness(article, now)
              k == Cardinality(SameAuthor(article))
              s == SumOfPopularity(SameAuthor(article), interactions)
          IN /\ IsCombinedScore(score, m, n, p, f, s, k)
             /\ (m = n /\ Engagement(article._id, interactions) = 50
                   /\ now - article.createdAt = 48 /\ 10 * s = 8 * 100 * k)
                  => 100 * score[1] = 81 * score[2]]_vars

\* the scenario has been scored: user 1, whose one interest matches,
\* article 1 with a weighted popularity of 50, 2 days old, by an author
\* whose three articles average 0.8, got 0.81
C13_Witness ==
  /\ req.userId = 1
  /\ now = 0
  /\ interactions = Shared
  /\ \E i \in 1..Len(recommendations) :
        /\ candidateArticles[i]._id = 1
        /\ recommendations[i] # <<>>
        /\ 100 * recommendations[i][1].score[1] = 81 * recommendations[i][1].score[2]
  /\ Engagement(1, interactions) = 50
  /\ SumOfPopularity(SameAuthor(ArticleStore[1]), interactions) = 240

NotReturned ==
  {r \in Scored : \A i \in 1..Len(response.data) : response.data[i].article # r.article}

\* C15: getRecommendations(userId, limit) returns at most limit entries in
\* non-increasing order of combined score, and they are the limit highest
\* scoring of the at most 2 x limit candidates fetched.
C15_TopLimitOfFetched ==
  Answered =>
    /\ Len(response.data) <= req.limit
    /\ Len(candidateArticles) <= 2 * req.limit
    /\ \A i \in 1..Len(response.data), j \in 1..Len(response.data) :
          i < j => response.data[i].score >= response.data[j].score
    /\ \A i \in 1..Len(returned), r \in NotReturned :
          atLeast(returned[i].score, r.score)

----------------------------------------------------------------------------
(* RecommendationService.getTrendingArticles                               *)

\* a match stage that lets every interaction through
inWindowAlways(doc, clock) == TRUE

\* { $match: { createdAt: { $gte: oneDayAgo } } }
inWindow(doc, clock) == doc.createdAt >= clock - 24

\* the $group stage: per article of the window, its interactionCount and
\* likeCount
trendingGroups(store, clock) ==
  LET matched == {i \in 1..Len(store) : inWindow(store[i], clock)}
      of(articleId) == {i \in matched : store[i].articleId = articleId}
  IN {[_id |-> articleId,
       interactionCount |-> Cardinality(of(articleId)),
       likeCount |-> Cardinality({i \in of(articleId) :
                                    store[i].interactionType = "like"})]
        : articleId \in {store[i].articleId : i \in matched}}

\* { $sort: { likeCount: -1, interactionCount: -1 } }: a comes no later
\* than b
sortsBefore(a, b) ==
  \/ a.likeCount > b.likeCount
  \/ (a.likeCount = b.likeCount /\ a.interactionCount >= b.interactionCount)

\* the ids the $sort and $limit stages can leave: the server may order
\* groups with equal keys either way
trendingIds(groups, limit) ==
  {{g._id : g \in T} :
     T \in {S \in SUBSET groups :
              /\ Cardinality(S) = (IF limit > Cardinality(groups)
                                     THEN Cardinality(groups) ELSE limit)
              /\ \A a \in S, b \in groups \ S : sortsBefore(a, b)}}

\* Article.find({ _id: { $in: articleIds } }): the articles in natural order
findArticlesIn(articleIds) ==
  LET isIn(article) == article._id \in articleIds
      found == SelectSeq(ArticleStore, isIn)
  IN [i \in 1..Len(found) |-> found[i]._id]

getTrendingArticles(limit) ==
  /\ IF limit <= 0
       THEN response' = errorHandler("MongoServerError")
       ELSE \E articleIds \in trendingIds(trendingGroups(interactions, now), limit) :
               response' = [status |-> 200,
                            message |-> "Trending articles retrieved successfully",
                            data |-> findArticlesIn(articleIds)]
  /\ UNCHANGED <<summaryVars, pc, databaseVars, recommendationVars>>

TrendingInit ==
  /\ pc = "idle"
  /\ SummaryIdle
  /\ interactions = <<>>
  /\ uniqueIndexBuilt \in BOOLEAN
  /\ now = 0
  /\ nextId = 1
  /\ savedArticles = <<>>
  /\ response = NoResponse
  /\ RecommendationIdle

TrendingNext ==
  \/ \E a \in {1, 2}, t \in {"view", "like", "share"} :
        createInteraction(1, a, t, <<>>, <<[platform |-> "twitter", message |-> ""]>>)
  \/ tick
  \/ \E limit \in 0..MaxLimit : getTrendingArticles(limit)

SpecTrending == TrendingInit /\ [][TrendingNext]_vars

----------------------------------------------------------------------------
(* Properties of getTrendingArticles (SpecTrending)                        *)

\* a trending list has been answered
Trending ==
  response.status = 200 /\ response.message = "Trending articles retrieved successfully"

\* the stored interactions with an article created no earlier than 24 hours
\* ago
Recent(articleId) ==
  {i \in 1..Len(interactions) :
     interactions[i].articleId = articleId /\ now - interactions[i].createdAt <= 24}

RecentOfType(articleId, type) ==
  {i \in Recent(articleId) : interactions[i].interactionType = type}

\* C17: an interaction created earlier than 24 hours before the request
\* contributes nothing to the trending result: every returned article has an
\* interaction inside the window, an article all of whose interactions are
\* older is never returned, and the articles are chosen by counts taken
\* inside the window.
C17_WindowOnly ==
  [][(Trending' /\ response' # response) =>
       LET listed == {response'.data[i] : i \in 1..Len(response'.data)}
       IN /\ \A a \in listed : Recent(a) # {}
          /\ \A a \in listed, b \in DOMAIN ArticleStore \ listed :
                Recent(b) # {} =>
                  \/ Cardinality(RecentOfType(a, "like")) > Cardinality(RecentOfType(b, "like"))
                  \/ /\ Cardinality(RecentOfType(a, "like")) = Cardinality(RecentOfType(b, "like"))
                     /\ Cardinality(Recent(a)) >= Cardinality(Recent(b))]_vars

\* an article with a recent interaction is listed while another one, whose
\* interaction is a like older than the window, is not
C17_Witness ==
  /\ Trending
  /\ response.data = <<2>>
  /\ Recent(2) # {}
  /\ Recent(1) = {}
  /\ \E i \in 1..Len(interactions) :
        interactions[i].articleId = 1 /\ interactions[i].interactionType = "like"

\* views x 1 + likes x 3 + shares x 5 + comments x 4 over the window
RecentEngagement(articleId) ==
  Cardinality(RecentOfType(articleId, "view"))
    + 3 * Cardinality(RecentOfType(articleId, "like"))
    + 5 * Cardinality(RecentOfType(articleId, "share"))
    + 4 * Cardinality(RecentOfType(articleId, "comment"))

\* a ranks no lower than b: more engagement, or as much and no fewer
\* interactions
RanksNoLower(a, b) ==
  \/ RecentEngagement(a) > RecentEngagement(b)
  \/ /\ RecentEngagement(a) = RecentEngagement(b)
     /\ Cardinality(Recent(a)) >= Cardinality(Recent(b))

\* C18: getTrendingArticles(limit) returns the top limit articles by
\* engagement over the window, in descending engagement order, ties broken
\* by descending interaction count.
C18_RankedByEngagement ==
  [][(Trending' /\ response' # response) =>
       LET listed == {response'.data[i] : i \in 1..Len(response'.data)}
       IN /\ \A a \in listed, b \in DOMAIN ArticleStore \ listed :
                Recent(b) # {} => RanksNoLower(a, b)
          /\ \A i \in 1..Len(response'.data), j \in 1..Len(response'.data) :
                i < j => RanksNoLower(response'.data[i], response'.data[j])]_vars

----------------------------------------------------------------------------
(* The order of the answer (SpecRecommend)                                 *)

\* where the query returned an article among the candidates
FetchPosition(article) ==
  CHOOSE i \in 1..Len(candidateArticles) : candidateArticles[i]._id = article

\* the combined score of the candidate at position i on the store as it is
SnapshotScore(i) ==
  calculateRecommendationScore(Users[req.userId], candidateArticles[i],
                               interactions, now).score

\* candidate i belongs before candidate j: a higher score, or the same score
\* and fetched earlier
RanksBefore(i, j) ==
  \/ ~atLeast(SnapshotScore(j), SnapshotScore(i))
  \/ /\ atLeast(SnapshotScore(j), SnapshotScore(i))
     /\ atLeast(SnapshotScore(i), SnapshotScore(j))
     /\ i < j

\* the fetch positions of the articles of the answer, in the answer's order
Listed == [k \in 1..Len(response.data) |-> FetchPosition(response.data[k].article)]

\* C21: with nothing saved while the request runs, the answer is fixed by the
\* store and the fetch order alone, whatever the order in which the scores
\* were computed: it is a prefix of the candidates ordered by descending
\* score on the store, candidates of equal score in fetch order
C21_OrderIndependent ==
  (Answered /\ nextId = 1) =>
     /\ \A k \in 1..(Len(Listed) - 1) : RanksBefore(Listed[k], Listed[k + 1])
     /\ \A k \in 1..Len(Listed), j \in 1..Len(candidateArticles) :
           (\A l \in 1..Len(Listed) : Listed[l] # j) => RanksBefore(Listed[k], j)
     /\ req.limit >= 1 =>
           Len(Listed) = IF req.limit < Len(candidateArticles)
                           THEN req.limit ELSE Len(candidateArticles)

\* two candidates of equal score are listed in fetch order although the
\* second one was scored first
C21_Witness ==
  /\ Answered
  /\ nextId = 1
  /\ Len(response.data) >= 2
  /\ atLeast(SnapshotScore(Listed[2]), SnapshotScore(Listed[1]))
  /\ Listed[1] < Listed[2]
  /\ recommendations[Listed[1]][2] > recommendations[Listed[2]][2]

----------------------------------------------------------------------------
(* The frame of updateComment and deleteInteraction (SpecInteractions)     *)

\* the ids a request for one interaction can name
RequestInteractionIds == (1..MaxSaved) \cup {UnknownId, MalformedId}

\* the positions of the stored comments with the given id
CommentsWithId(id) ==
  {i \in 1..Len(interactions) :
     interactions[i]._id = id /\ interactions[i].interactionType = "comment"}

\* the request carries no content or a blank one
Blank(text) == text = <<>> \/ trim(text[1]) = <<>>

\* nothing in the store changes and the answer has one of the given statuses
Refused(statuses) == interactions' = interactions /\ response'.status \in statuses

\* the store after the step is the store before it without the documents
\* with the given id
WithoutId(id) ==
  LET others(doc) == doc._id # id
  IN interactions' = SelectSeq(interactions, others)

DeleteFrame(id) ==
  IF \E i \in 1..Len(interactions) : interactions[i]._id = id
    THEN /\ Cardinality({i \in 1..Len(interactions) : interactions[i]._id = id}) = 1
         /\ WithoutId(id)
         /\ response'.status = 200
    ELSE Refused(IF isObjectId(id) THEN {404} ELSE {400})

\* updateComment as the claim states it: the comment differs in its content
\* alone
UpdateFrameContentOnly(id, text) ==
  IF Blank(text) THEN Refused({400})
  ELSE IF CommentsWithId(id) = {} THEN Refused(IF isObjectId(id) THEN {404} ELSE {400})
  ELSE /\ Cardinality(CommentsWithId(id)) = 1
       /\ Len(interactions') = Len(interactions)
       /\ \A i \in 1..Len(interactions) :
             IF i \in CommentsWithId(id)
               THEN interactions'[i] =
                      [interactions[i] EXCEPT !.content = <<trim(text[1])>>]
               ELSE interactions'[i] = interactions[i]

\* updateComment: the comment differs in its content and in updatedAt, which
\* is the instant of the update
UpdateFrame(id, text) ==
  IF Blank(text) THEN Refused({400})
  ELSE IF CommentsWithId(id) = {} THEN Refused(IF isObjectId(id) THEN {404} ELSE {400})
  ELSE /\ Cardinality(CommentsWithId(id)) = 1
       /\ Len(interactions') = Len(interactions)
       /\ \A i \in 1..Len(interactions) :
             IF i \in CommentsWithId(id)
               THEN interactions'[i] =
                      [interactions[i] EXCEPT !.content = <<trim(text[1])>>,
                                              !.updatedAt = now]
               ELSE interactions'[i] = interactions[i]

\* comments and likes are written, edited and deleted while time passes
EditingNext ==
  \/ \E a \in {1, 2}, t \in {"comment", "like"}, c \in {<<>>, <<Hi>>} :
        createInteraction(1, a, t, c, <<>>)
  \/ \E id \in RequestInteractionIds : deleteInteraction(id)
  \/ \E id \in RequestInteractionIds, c \in RequestContents : updateComment(id, c)
  \/ tick

SpecEditing == InteractionsInit /\ [][EditingNext]_vars

\* C22 as stated: updateComment changes only the content field of the one
\* comment with the given id and changes nothing when the id names no comment
\* or the content is blank; deleteInteraction removes exactly the interaction
\* with the given id.
C22_UpdateChangesContentOnly ==
  [][/\ \A id \in RequestInteractionIds, c \in RequestContents :
           updateComment(id, c) => UpdateFrameContentOnly(id, c)
     /\ \A id \in RequestInteractionIds :
           deleteInteraction(id) => DeleteFrame(id)]_vars

\* C22 amended: updateComment changes the content and the updatedAt
\* timestamp of the one comment with the given id, and nothing else;
\* nothing changes when the id names no comment (404, or 400 for an id that
\* is no ObjectId) or the content is blank (400); deleteInteraction removes
\* exactly the interaction with the given id.
C22_UpdateChangesContentAndUpdatedAt ==
  [][/\ \A id \in RequestInteractionIds, c \in RequestContents :
           updateComment(id, c) => UpdateFrame(id, c)
     /\ \A id \in RequestInteractionIds :
           deleteInteraction(id) => DeleteFrame(id)]_vars

\* a comment was edited after it was written, next to an interaction that
\* was left alone, and an interaction was deleted before
C22_Witness ==
  /\ response.message = "Comment updated successfully"
  /\ Len(interactions) = 1
  /\ nextId = 3
  /\ interactions[1].interactionType = "comment"
  /\ interactions[1].content = <<Yo>>
  /\ interactions[1].updatedAt > interactions[1].createdAt

----------------------------------------------------------------------------
(* The noise filter (SpecExtractive)                                       *)

\* the trimmed sentence candidates of the document
SentenceCandidates == trimAll(splitOnTerminators(content))

\* the filter as the claim states it
HasFifteenCharactersAndFourWords(piece) ==
  Len(piece) >= 15 /\ WordCount(piece) > 3

\* more than 15 characters, and more than 3 pieces between single spaces
HasSixteenCharactersAndFourPieces(piece) ==
  /\ Len(piece) > 15
  /\ Cardinality({i \in 1..Len(piece) : piece[i] = " "}) + 1 > 3

\* C23 as stated: a trimmed candidate survives the noise filter iff it has at
\* least 15 characters and more than 3 whitespace-delimited words; seen on
\* a summary that has room for every survivor.
C23_FifteenCharactersSurvive ==
  LET stated == SelectSeq(SentenceCandidates, HasFifteenCharactersAndFourWords)
  IN (pc = "returned" /\ Len(stated) <= maxSentencesOf(config)) =>
        IsSpaceJoined(summary, stated)

\* C23 amended: a trimmed candidate survives the noise filter iff it has
\* more than 15 characters and splits on the single space character into
\* more than 3 pieces; every other candidate is discarded.
C23_MoreThanFifteenCharacters ==
  LET kept == SelectSeq(SentenceCandidates, HasSixteenCharactersAndFourPieces)
  IN (pc = "returned" /\ Len(kept) <= maxSentencesOf(config)) =>
        /\ IsSpaceJoined(summary, kept)
        /\ kept = Survivors

\* a document with a candidate of 15 characters, one of 16 and one of three
\* words around two spaces has been summarized: the summary is the second
\* and the third
C23_Witness ==
  /\ pc = "returned"
  /\ content = documentOf(<<3, 2, 5>>)
  /\ maxSentencesOf(config) = 2
  /\ Len(Survivors) = 2
  /\ Len(summary) = 16 + 1 + 21

----------------------------------------------------------------------------
(* The interest signal (SpecRecommend)                                     *)

\* 0.3 popularity + 0.2 freshness + 0.1 author of an article, as a fraction
OtherSignals(article, store, clock) ==
  LET k == Cardinality(SameAuthor(article))
  IN <<3 * Popularity(article._id, store) * k + 2 * Freshness(article, clock) * k
         + SumOfPopularity(SameAuthor(article), store),
       1000 * k>>

\* C24: what the interest signal adds to the combined score is 0.4 times the
\* number of user interests that are a substring of, or contain, at least
\* one article tag, divided by the number of user interests; with no
\* interests or no tags it adds exactly 0 and the combined score is the
\* weighted sum of the other three signals.
C24_InterestScore ==
  [][\A i \in 1..Len(recommendations) :
       (pc = "scoring" /\ recommendations[i] = <<>> /\ recommendations'[i] # <<>>) =>
          LET user    == Users[req.userId]
              article == candidateArticles[i]
              score   == recommendations'[i][1].score
              other   == OtherSignals(article, interactions, now)
              added   == score[1] * other[2] - other[1] * score[2]
          IN IF Len(user.interests) = 0 \/ Len(article.tags) = 0
               THEN added = 0
               ELSE added * 10 * Len(user.interests)
                      = 4 * MatchCount(user, article) * score[2] * other[2]]_vars

\* user 2, two of whose three interests match a tag of article 1, got a
\* score for it that holds 0.4 * 2/3 on top of the other signals, and a
\* score for article 3, which has no tags, that holds nothing on top
C24_Witness ==
  /\ req.userId = 2
  /\ \E i \in 1..Len(recommendations) :
        /\ candidateArticles[i]._id = 1
        /\ recommendations[i] # <<>>
        /\ MatchCount(Users[2], candidateArticles[i]) = 2
        /\ LET score == recommendations[i][1].score
               other == OtherSignals(candidateArticles[i], interactions, now)
           IN (score[1] * other[2] - other[1] * score[2]) * 30
                = 8 * score[2] * other[2]
  /\ \E i \in 1..Len(recommendations) :
        /\ candidateArticles[i]._id = 3
        /\ recommendations[i] # <<>>
        /\ LET score == recommendations[i][1].score
               other == OtherSignals(candidateArticles[i], interactions, now)
           IN /\ score[1] * other[2] = other[1] * score[2]
              /\ score[1] > 0

----------------------------------------------------------------------------
(* The author signal (SpecRecommend)                                       *)

\* C25: the author score that enters the combined score of a candidate is
\* the average popularity of its author's articles (at most 10, the most
\* recent ones), and 0.5 whenever the author has no article other than the
\* candidate.
C25_AuthorScore ==
  [][\A i \in 1..Len(recommendations) :
       (pc = "scoring" /\ recommendations[i] = <<>> /\ recommendations'[i] # <<>>) =>
          LET user    == Users[req.userId]
              article == candidateArticles[i]
              score   == recommendations'[i][1].score
              n == IF Len(user.interests) = 0 \/ Len(article.tags) = 0
                     THEN 1 ELSE Len(user.interests)
              m == IF Len(user.interests) = 0 \/ Len(article.tags) = 0
                     THEN 0 ELSE MatchCount(user, article)
              p == Popularity(article._id, interactions)
              f == Freshness(article, now)
              alone == SameAuthor(article) \ {article._id} = {}
              k == IF alone THEN 1 ELSE Cardinality(SameAuthor(article))
              s == IF alone THEN 50
                   ELSE SumOfPopularity(SameAuthor(article), interactions)
          IN IsCombinedScore(score, m, n, p, f, s, k)]_vars

----------------------------------------------------------------------------
(* The reasons of a recommendation (SpecRecommend)                         *)

\* the reasons with the given text
ReasonsWith(reasons, text) == {r \in 1..Len(reasons) : reasons[r].text = text}

\* the interests of the user that match a tag of the article, in the
\* user's order
MatchingInterests(user, article) ==
  LET matches(interest) ==
        \E t \in 1..Len(article.tags) :
           Contains(article.tags[t], interest) \/ Contains(interest, article.tags[t])
  IN SelectSeq(user.interests, matches)

\* C26: the reasons of a recommendation are never empty: the interest reason,
\* listing exactly the matching interests, is there iff interest > 0;
\* 'Popular among users' iff popularity > 0.7; 'Recent content' iff
\* freshness > 0.8; 'From popular author' iff the author score > 0.7; and
\* the generic reason, alone, iff none of the four is.
C26_Reasons ==
  [][\A i \in 1..Len(recommendations) :
       (pc = "scoring" /\ recommendations[i] = <<>> /\ recommendations'[i] # <<>>) =>
          LET user     == Users[req.userId]
              article  == candidateArticles[i]
              reasons  == recommendations'[i][1].reasons
              matching == MatchingInterests(user, article)
              k == Cardinality(SameAuthor(article))
              s == SumOfPopularity(SameAuthor(article), interactions)
              interested == Len(matching) > 0
              popular    == Popularity(article._id, interactions) > 70
              recent     == Freshness(article, now) > 80
              reputed    == 10 * s > 7 * 100 * k
              has(text)  == ReasonsWith(reasons, text) # {}
          IN /\ Len(reasons) > 0
             /\ \A a \in 1..Len(reasons), b \in 1..Len(reasons) :
                   reasons[a].text = reasons[b].text => a = b
             /\ has("Matches your interests: ") <=> interested
             /\ \A r \in ReasonsWith(reasons, "Matches your interests: ") :
                   reasons[r].interests = matching
             /\ has("Popular among users") <=> popular
             /\ has("Recent content") <=> recent
             /\ has("From popular author") <=> reputed
             /\ has("General recommendation")
                  <=> ~(interested \/ popular \/ recent \/ reputed)
             /\ has("General recommendation") => Len(reasons) = 1]_vars

\* user 2 got article 1 for the two interests that match it and for its
\* author, and article 3 for the generic reason alone
C26_Witness ==
  /\ req.userId = 2
  /\ \E i \in 1..Len(recommendations) :
        /\ candidateArticles[i]._id = 1
        /\ recommendations[i] # <<>>
        /\ recommendations[i][1].reasons =
             <<[text |-> "Matches your interests: ", interests |-> <<Tech, Ai>>],
               [text |-> "From popular author", interests |-> <<>>]>>
  /\ \E i \in 1..Len(recommendations) :
        /\ candidateArticles[i]._id = 3
        /\ recommendations[i] # <<>>
        /\ recommendations[i][1].reasons =
             <<[text |-> "General recommendation", interests |-> <<>>]>>

----------------------------------------------------------------------------
(* Cleaning of a provider's candidate (Spec)                               *)

\* the response body behind the resolved attempt of provider p, trimmed,
\* begins with the label "summary:" in some letter case
Labelled(p) ==
  /\ attempt[p].status = "resolved"
  /\ startsWithIgnoreCase(trim(attempt[p].raw), <<"s","u","m","m","a","r","y",":">>)

\* the text that follows the 8 characters of the label and the white space
\* after it
AfterLabel(p) == dropLeading(dropChars(trim(attempt[p].raw), 8), WhiteSpace)

\* C27: cleaning a candidate that begins with the label "summary:", in any
\* letter case, removes the whole label, colon included: the cleaned text is
\* the text that followed the label, with its white space collapsed and its
\* wrapping quotes stripped.
C27_LabelRemovedWithColon ==
  \A p \in Providers :
     Labelled(p) =>
        attempt[p].value = trim(stripQuotes(collapseWhitespace(AfterLabel(p))))

\* C28: the summary generateBestSummary returns with method 'ai' is left as
\* it is by cleaning, so it is the text the validator examined, and it meets
\* every condition of the validator itself.
C28_ReturnedTextIsExaminedText ==
  (pc = "returned" /\ result.method = "ai") =>
     /\ cleanSummary(result.summary) = result.summary
     /\ Len(result.summary) >= 20
     /\ 5 * Len(result.summary) < 4 * Len(content)
     /\ WordCount(result.summary) >= 10
     /\ ~ContainsAnyCase(result.summary, <<"e","r","r","o","r">>)
     /\ ~ContainsAnyCase(result.summary, <<"f","a","i","l","e","d">>)
     /\ ~Contains(result.summary, <<"u","n","d","e","f","i","n","e","d">>)

----------------------------------------------------------------------------
(* The size of the extractive summary (SpecExtractive)                     *)

\* C29: for every text and every integer maxSentences, 0 and the negative
\* ones included, the extractive summary is made of at most
\* max(maxSentences, 0) sentences.
C29_AtMostMaxSentences ==
  pc = "returned" =>
     /\ Len(top) <= (IF maxSentencesOf(config) > 0 THEN maxSentencesOf(config) ELSE 0)
     /\ IsSpaceJoined(summary, [i \in 1..Len(top) |-> Survivors[top[i] + 1]])

----------------------------------------------------------------------------
(* ArticleController.createArticle, with the summary service under it      *)

TitleMaxLength == 200

ContentMinLength == 50

AuthorMaxLength == 100

SummaryMaxLength == 500

\* the validators of ArticleSchema the document of createArticle can fail
validatesArticle(doc) ==
  /\ Len(doc.title) \in 1..TitleMaxLength
  /\ Len(doc.content) >= ContentMinLength
  /\ Len(doc.author) \in 1..AuthorMaxLength
  /\ Len(doc.summary) <= SummaryMaxLength

\* new Article({ ... }) under the setters of the schema: the summary is
\* trimmed too
newArticle(title, text, author, finalSummary, clock) ==
  [title |-> trim(title), content |-> trim(text), author |-> trim(author),
   summary |-> trim(finalSummary), tags |-> <<>>, createdAt |-> clock]

\* article.save() and the answer: 201, or the 500 of the outer catch when
\* the validation fails
saveArticle(doc) ==
  IF validatesArticle(doc)
    THEN /\ savedArticles' = Append(savedArticles, doc)
         /\ response' = [status |-> 201, message |-> "Article created successfully",
                         data |-> <<doc>>]
    ELSE /\ response' = reply(500, "Failed to create article")
         /\ UNCHANGED savedArticles

\* createArticle up to its first await: the two checks, then either the
\* save of an article that came with a summary or the call of
\* generateSummaryForArticle(content), which enters
\* generateBestSummary(content, { maxSentences: 3 })
createArticle(title, text, author, givenSummary) ==
  /\ pc = "idle"
  /\ IF title = <<>> \/ text = <<>> \/ author = <<>>
       THEN /\ response' = reply(400, "Title, content, and author are required fields")
            /\ pc' = "responded"
            /\ UNCHANGED <<content, config, req, savedArticles>>
     ELSE IF Len(trim(text)) < ContentMinLength
       THEN /\ response' = reply(400, "Content must be at least 50 characters long")
            /\ pc' = "responded"
            /\ UNCHANGED <<content, config, req, savedArticles>>
     ELSE IF givenSummary # <<>> /\ trim(givenSummary[1]) # <<>>
       THEN /\ saveArticle(newArticle(title, text, author, givenSummary[1], now))
            /\ pc' = "responded"
            /\ UNCHANGED <<content, config, req>>
     ELSE /\ content' = text
          /\ config' = [maxSentences |-> <<3>>, model |-> <<>>]
          /\ req' = [title |-> title, author |-> author]
          /\ pc' = "loop"
          /\ UNCHANGED <<response, savedArticles>>
  /\ UNCHANGED <<serviceVars, extractiveVars, validatorVars, interactions,
                 uniqueIndexBuilt, now, nextId, startedWith, interactedArticleIds,
                 candidateArticles, recommendations>>

\* createArticle after generateSummaryForArticle returned: the generated
\* summary is the article's summary
createArticleResumes ==
  /\ pc = "returned"
  /\ saveArticle(newArticle(req.title, content, req.author, result.summary, now))
  /\ pc' = "responded"
  /\ UNCHANGED <<summaryVars, interactions, uniqueIndexBuilt, now, nextId,
                 recommendationVars>>

\* "cats cats ... cats": 36 words, 179 characters
LongSentence == join(repeat(<<"c","a","t","s">>, 36))

\* three sentences of 179 characters: an article of 543 characters
LongArticle ==
  LongSentence \o <<".", " ">> \o LongSentence \o <<"!", " ">> \o LongSentence \o <<"?", " ">>

\* of 49 characters once trimmed, of 68, and of 541
CreateContents == {<<>>, documentOf(<<1, 1>>), documentOf(<<1, 2, 1>>), LongArticle}

CreateSummaries == {<<>>, <<<<" ">>>>, <<Hi>>}

CreateInit == pc = "idle" /\ ServiceInit

CreateNext ==
  \/ \E title \in {<<>>, Hi}, text \in CreateContents, given \in CreateSummaries :
        createArticle(title, text, Yo, given)
  \/ generateOllamaSummary
  \/ ollamaCompletes
  \/ generateCohereSummary
  \/ cohereCompletes
  \/ generateHuggingFaceSummary
  \/ huggingFaceCompletes
  \/ generateOpenAISummary
  \/ openAICompletes
  \/ resume
  \/ extractiveFallback
  \/ createArticleResumes

SpecCreate == CreateInit /\ [][CreateNext]_vars

----------------------------------------------------------------------------
(* Properties of createArticle (SpecCreate)                                *)

\* C30: every summary the summary service generates for an article, from a
\* provider or from the extractive fallback, has at most 500 characters, so
\* createArticle with a valid title, author and content and no supplied
\* summary always stores the article and never fails on the generated
\* summary.
C30_GeneratedSummaryFits ==
  (pc = "responded" /\ result # NoResult) =>
     /\ Len(result.summary) <= SummaryMaxLength
     /\ response.status = 201
     /\ Len(savedArticles) = 1
     /\ savedArticles[1].summary = trim(result.summary)

====
